---- MODULE Spec2Model ----
(***************************************************************************)
(* Accessibility quick-check: the check entry points (the HTTP endpoint    *)
(* POST of src/app/api/check/route.ts, the server action of                *)
(* src/lib/actions.ts that calls it, and the stand-alone server action of  *)
(* src/actions.ts), the Tab-Order Walker, the Reverse-Order Verifier and   *)
(* the in-page helpers they evaluate (selector synthesis, accessible-name  *)
(* resolution, metadata extraction).                                       *)
(*                                                                         *)
(* Strings are sequences of one-character strings.  A JavaScript null is   *)
(* the value Null.  The browser (Playwright and the page it drives) is the *)
(* environment: every awaited browser call either completes or rejects.    *)
(***************************************************************************)
EXTENDS Integers, Sequences, FiniteSets, TLC

(***************************************************************************)
(* Strings                                                                 *)
(***************************************************************************)
\* null or undefined where a string or an array is expected
Null == <<"null">>

\* null or undefined where an object is expected
NoObject == [null |-> TRUE]

WhiteSpace == {" ", "\t", "\n"}

Digit == {"0", "1", "2", "3", "4", "5", "6", "7", "8", "9"}

RECURSIVE trimStart(_)
trimStart(s) ==
    IF s # <<>> /\ Head(s) \in WhiteSpace THEN trimStart(Tail(s)) ELSE s

RECURSIVE trimEnd(_)
trimEnd(s) ==
    IF s # <<>> /\ s[Len(s)] \in WhiteSpace
    THEN trimEnd(SubSeq(s, 1, Len(s) - 1))
    ELSE s

\* String.prototype.trim
trim(s) == trimEnd(trimStart(s))

RECURSIVE Digits(_)
\* Number -> decimal string, as template-literal interpolation renders it
Digits(k) ==
    LET d == <<"0", "1", "2", "3", "4", "5", "6", "7", "8", "9">>
    IN  IF k < 10 THEN <<d[k + 1]>> ELSE Digits(k \div 10) \o <<d[(k % 10) + 1]>>

\* String.prototype.toLowerCase on the letters the model's tag names use
toLowerCase(s) ==
    LET low(c) == CASE c = "A" -> "a" [] c = "B" -> "b" [] c = "D" -> "d"
                    [] c = "E" -> "e" [] c = "G" -> "g" [] c = "H" -> "h"
                    [] c = "I" -> "i" [] c = "L" -> "l" [] c = "M" -> "m"
                    [] c = "N" -> "n" [] c = "O" -> "o" [] c = "P" -> "p"
                    [] c = "R" -> "r" [] c = "S" -> "s" [] c = "T" -> "t"
                    [] c = "U" -> "u" [] c = "V" -> "v" [] c = "X" -> "x"
                    [] c = "Y" -> "y"
                    [] OTHER -> c
    IN  [i \in 1..Len(s) |-> low(s[i])]

RECURSIVE join(_, _)
\* Array.prototype.join
join(parts, sep) ==
    IF parts = <<>> THEN <<>>
    ELSE IF Len(parts) = 1 THEN parts[1]
    ELSE parts[1] \o sep \o join(Tail(parts), sep)

RECURSIVE splitWs(_, _)
\* String.prototype.split(/\s+/): cur is the piece being read
splitWs(s, cur) ==
    IF s = <<>> THEN <<cur>>
    ELSE IF Head(s) \in WhiteSpace
         THEN <<cur>> \o splitWs(trimStart(s), <<>>)
         ELSE splitWs(Tail(s), Append(cur, Head(s)))

(***************************************************************************)
(* Selector synthesis                                                      *)
(***************************************************************************)
\* The grave accent character (the lexer of TLA+ cannot read it in a string)
Grave == "grave"

EscapedChars ==
    {"!", "\"", "#", "$", "%", "&", "'", "(", ")", "*", "+", ",", ".", "/",
     ":", ";", "<", "=", ">", "?", "@", "[", "\\", "]", "^", Grave, "{", "|",
     "}", "~", " "}

RECURSIVE cssEscape(_)
\* value.replace(/([...])/g, "\\$1"): a backslash before each listed character
cssEscape(value) ==
    IF value = <<>> THEN <<>>
    ELSE (IF Head(value) \in EscapedChars
          THEN <<"\\", Head(value)>>
          ELSE <<Head(value)>>) \o cssEscape(Tail(value))

(***************************************************************************)
(* Pages.  A page is a record [kind, n, wrap, back, imgs]: a DOM of       *)
(* Size(pg) nodes in document order (node 1 is the root element, node 2   *)
(* the body), n focusable elements visited by Tab in the order             *)
(* Focusables(pg), wrap says where Tab goes from the last one and back how *)
(* Shift+Tab moves; the last imgs nodes are images, children of the body.  *)
(* The node 0 stands for "no element" (a null reference).                  *)
(***************************************************************************)
NoElement == 0

DocumentElement == 1

Body == 2

El(tagName, html, parent, id, ariaLabel, text) ==
    [tagName |-> tagName, html |-> html, parent |-> parent, id |-> id,
     classList |-> <<>>, role |-> Null, ariaLabel |-> ariaLabel,
     labelledBy |-> Null, describedBy |-> Null, title |-> Null, alt |-> Null,
     src |-> Null, placeholder |-> Null, name |-> Null, type |-> Null,
     text |-> text]

Anchor(parent, id, ariaLabel) == El(<<"A">>, TRUE, parent, id, ariaLabel, <<>>)

Div(parent) == El(<<"D", "I", "V">>, TRUE, parent, <<>>, Null, <<>>)

\* A <span>: an HTML element that focus() does not move the focus to
Span(parent, id) == El(<<"S", "P", "A", "N">>, TRUE, parent, id, Null, <<>>)

\* An <input> or a <textarea>
Field(tagName, type, placeholder, name, text) ==
    [El(tagName, TRUE, Body, <<>>, Null, text)
        EXCEPT !.type = type, !.placeholder = placeholder, !.name = name]

\* An <a> with aria-labelledby and title attributes
Labelled(ariaLabel, labelledBy, title, text) ==
    [El(<<"A">>, TRUE, Body, <<>>, ariaLabel, text)
        EXCEPT !.labelledBy = labelledBy, !.title = title]

\* An element with class names
Classed(tagName, parent, id, classList) ==
    [El(tagName, TRUE, parent, id, Null, <<>>) EXCEPT !.classList = classList]

\* The alt and role attributes of the images of a page, in turn: the k-th
\* image has the alt AltValues[((k - 1) % 4) + 1] and, four images at a time,
\* the role RoleValues[...]; <<>> is an attribute that is present and empty
AltValues == <<Null, <<"l", "o", "g", "o">>, <<>>, <<" ", "\t">>>>

RoleValues == <<Null, <<>>, <<"n", "o", "n", "e">>>>

\* The k-th image of a page: <img src="ik" ...>, every seventh without src
Img(k) ==
    [El(<<"I", "M", "G">>, TRUE, Body, <<>>, Null, <<>>)
        EXCEPT !.alt = AltValues[((k - 1) % 4) + 1],
               !.role = RoleValues[(((k - 1) \div 4) % 3) + 1],
               !.src = IF k % 7 = 0 THEN Null ELSE <<"i">> \o Digits(k)]

\* The nodes of the page before its images
ContentSize(pg) ==
    CASE pg.kind \in {"deep", "deepdup"} -> 12
      [] pg.kind \in {"svg", "inertid"} -> 5
      [] pg.kind = "names" -> 13
      [] pg.kind = "classy" -> 7
      [] OTHER -> pg.n + 2

Size(pg) == ContentSize(pg) + pg.imgs

\* The elements of the page of kind "names": the sources of an accessible
\* name in several combinations
NamesNode(k) ==
    CASE k = 3 -> [Span(Body, <<"t", "1">>) EXCEPT !.text = <<" ", "H", "i", " ">>]
      [] k = 4 -> Labelled(<<" ", "G", "o", " ">>, <<"t", "1">>, <<"T">>,
                           <<"t", "x", "t">>)
      [] k = 5 -> Labelled(<<" ", " ">>, <<" ", "t", "1", " ", "n", "o">>,
                           <<"T">>, <<>>)
      [] k = 6 -> Labelled(Null, <<"n", "o">>, <<" ", "T", " ">>, <<"t", "x", "t">>)
      [] k = 7 -> [El(<<"I", "M", "G">>, TRUE, Body, <<>>, Null, <<>>)
                      EXCEPT !.alt = <<" ", "p", "i", "c">>,
                             !.placeholder = <<"p", "h">>]
      [] k = 8 -> Field(<<"I", "N", "P", "U", "T">>, <<"t", "e", "x", "t">>,
                        <<" ", "p", "h", " ">>, <<"n", "m">>, <<>>)
      [] k = 9 -> Field(<<"I", "N", "P", "U", "T">>, Null, <<" ">>,
                        <<"n", "m">>, <<>>)
      [] k = 10 -> Field(<<"T", "E", "X", "T", "A", "R", "E", "A">>, Null, Null,
                         <<"t", "a">>, <<"t", "x", "t">>)
      [] k = 11 -> Field(<<"I", "N", "P", "U", "T">>,
                         <<"c", "h", "e", "c", "k", "b", "o", "x">>, Null,
                         <<"o", "k">>, <<>>)
      [] k = 12 -> [Anchor(Body, <<>>, Null)
                       EXCEPT !.alt = <<"x">>, !.placeholder = <<"y">>,
                              !.name = <<"z">>, !.text = <<" ", "g", "o", " ">>]
      [] OTHER -> Anchor(Body, <<>>, Null)

\* The elements of the page of kind "classy": body > div.box(3) >
\* button#go.now.btn.a:b(4), a.nav.w-1/2(5), div(6) > a#e1.nav(7)
ClassyNode(k) ==
    CASE k = 3 -> Classed(<<"D", "I", "V">>, Body, <<>>, <<<<"b", "o", "x">>>>)
      [] k = 4 -> Classed(<<"B", "U", "T", "T", "O", "N">>, 3,
                          <<"g", "o", ".", "n", "o", "w">>,
                          <<<<"b", "t", "n">>, <<"a", ":", "b">>>>)
      [] k = 5 -> [Classed(<<"A">>, 3, <<>>,
                           <<<<"n", "a", "v">>, <<"w", "-", "1", "/", "2">>>>)
                      EXCEPT !.ariaLabel = <<"L", "5">>]
      [] k = 6 -> Div(3)
      [] OTHER -> [Classed(<<"A">>, 6, <<"e", "1">>, <<<<"n", "a", "v">>>>)
                      EXCEPT !.ariaLabel = <<"L", "7">>]

\* The DOM node k of the page
Node(pg, k) ==
    IF k = DocumentElement
    THEN El(<<"H", "T", "M", "L">>, TRUE, NoElement, <<>>, Null, <<>>)
    ELSE IF k = Body
    THEN El(<<"B", "O", "D", "Y">>, TRUE, DocumentElement, <<>>, Null, <<>>)
    ELSE IF k > ContentSize(pg) THEN Img(k - ContentSize(pg))
    ELSE CASE pg.kind = "ids" ->
                Anchor(Body, <<"e">> \o Digits(k - 2), <<"L">> \o Digits(k - 2))
           [] pg.kind = "path" -> Anchor(Body, <<>>, <<"L">> \o Digits(k - 2))
           [] pg.kind = "samename" -> Anchor(Body, <<>>, <<" ", "g", "o">>)
           [] pg.kind = "noname" -> Anchor(Body, <<>>, Null)
           [] pg.kind = "badid" ->
                Anchor(Body, Digits(k - 2) \o <<"a">>, <<"L">> \o Digits(k - 2))
           [] pg.kind = "dupid" ->
                Anchor(Body, IF k = 4 THEN <<"y">> ELSE <<"x", ".", "z">>,
                       <<"L">> \o Digits(k - 2))
           [] pg.kind \in {"deep", "deepdup"} ->
                \* body > div(3) > div > div > div > a(7) and the same under div(8)
                IF k \in {7, 12}
                THEN Anchor(k - 1, <<>>,
                            IF pg.kind = "deepdup" THEN <<"g", "o">>
                            ELSE <<"L">> \o Digits(k))
                ELSE Div(IF k \in {3, 8} THEN Body ELSE k - 1)
           [] pg.kind = "inertid" ->
                \* body > span#x(3), a#y(4), a#x(5): the id x is used twice
                IF k = 3 THEN Span(Body, <<"x">>)
                ELSE Anchor(Body, IF k = 4 THEN <<"y">> ELSE <<"x">>,
                            <<"L">> \o Digits(k - 2))
           [] pg.kind = "names" -> NamesNode(k)
           [] pg.kind = "classy" -> ClassyNode(k)
           [] pg.kind = "svg" ->
                \* body > a(3), body > svg(4) > a(5); 4 and 5 are SVG elements
                IF k = 3 THEN Anchor(Body, <<>>, <<"L", "1">>)
                ELSE IF k = 4
                THEN El(<<"s", "v", "g">>, FALSE, Body, <<>>, Null, <<>>)
                ELSE El(<<"a">>, FALSE, 4, <<>>, <<"L", "2">>, <<>>)

\* The focusable elements, in the order Tab visits them
Focusables(pg) ==
    CASE pg.kind \in {"deep", "deepdup"} -> <<7, 12>>
      [] pg.kind = "svg" -> <<3, 5>>
      [] pg.kind = "inertid" -> <<4, 5>>
      [] pg.kind = "names" -> [k \in 1..pg.n |-> k + 3]
      [] pg.kind = "classy" -> <<4, 5, 7>>
      [] OTHER -> [k \in 1..pg.n |-> k + 2]

indexIn(f, el) ==
    IF \E k \in 1..Len(f) : f[k] = el THEN CHOOSE k \in 1..Len(f) : f[k] = el
    ELSE 0

PositionOf(pg, el) == indexIn(Focusables(pg), el)

\* The element focused after a Tab key press with focus on el
nextInOrder(f, k, wrap) ==
    IF Len(f) = 0 THEN Body
    ELSE IF k = 0 THEN f[1]
    ELSE IF k < Len(f) THEN f[k + 1]
    ELSE IF wrap = 0 THEN Body ELSE f[wrap]

TabFrom(pg, el) == nextInOrder(Focusables(pg), PositionOf(pg, el), pg.wrap)

\* The element focused after a Shift+Tab key press with focus on el
previousInOrder(f, k, back, el) ==
    CASE back = "stuck" -> el
      [] back = "leave" -> Body
      [] back = "skip" /\ k > 2 -> f[k - 2]
      [] OTHER -> IF k > 1 THEN f[k - 1]
                  ELSE IF k = 1 THEN Body
                  ELSE IF Len(f) = 0 THEN Body ELSE f[Len(f)]

ShiftTabFrom(pg, el) ==
    previousInOrder(Focusables(pg), PositionOf(pg, el), pg.back, el)

(***************************************************************************)
(* Selector synthesis (continued)                                          *)
(***************************************************************************)
MaxSelectorDepth == 4

childrenLike(pg, parent, tagName) ==
    IF parent = NoElement THEN {}
    ELSE {c \in 1..Size(pg) :
            Node(pg, c).parent = parent /\ Node(pg, c).tagName = tagName}

\* Array.from(current.parentElement?.children || []).filter(same tagName)
sameTagSiblings(pg, current) ==
    childrenLike(pg, Node(pg, current).parent, Node(pg, current).tagName)

\* One level of the path: tag, classes, :nth-of-type
nthOfType(index) ==
    <<":", "n", "t", "h", "-", "o", "f", "-", "t", "y", "p", "e", "(">>
    \o Digits(index) \o <<")">>

segmentOf(tagName, classes, siblings, current) ==
    toLowerCase(tagName)
    \o (IF Len(classes) > 0
        THEN <<".">> \o join([k \in 1..Len(classes) |-> cssEscape(classes[k])],
                             <<".">>)
        ELSE <<>>)
    \o (IF Cardinality(siblings) > 1
        THEN nthOfType(Cardinality({c \in siblings : c <= current}))
        ELSE <<>>)

selectorSegment(pg, current) ==
    segmentOf(Node(pg, current).tagName, Node(pg, current).classList,
              sameTagSiblings(pg, current), current)

RECURSIVE selectorPath_oneMore(_, _, _)
\* Mutant: the loop runs while depth <= 4
selectorPath_oneMore(pg, current, depth) ==
    IF current = NoElement \/ ~(depth <= MaxSelectorDepth) THEN <<>>
    ELSE Append(selectorPath_oneMore(pg, Node(pg, current).parent, depth + 1),
                selectorSegment(pg, current))

RECURSIVE selectorPath(_, _, _)
\* while (current && depth < 4) { path.unshift(selector); current = parent }
selectorPath(pg, current, depth) ==
    IF current = NoElement \/ ~(depth < MaxSelectorDepth) THEN <<>>
    ELSE Append(selectorPath(pg, Node(pg, current).parent, depth + 1),
                selectorSegment(pg, current))

\* Mutant: the id is written into the selector as it is
buildSelector_rawId(pg, element) ==
    IF Node(pg, element).id # <<>>
    THEN <<"#">> \o Node(pg, element).id
    ELSE join(selectorPath(pg, element, 0), <<" ", ">", " ">>)

buildSelector(pg, element) ==
    IF Node(pg, element).id # <<>>
    THEN <<"#">> \o cssEscape(Node(pg, element).id)
    ELSE join(selectorPath(pg, element, 0), <<" ", ">", " ">>)

(***************************************************************************)
(* Accessible-name resolution                                              *)
(***************************************************************************)
\* document.getElementById: the first element in document order with the id
firstOf(hits) ==
    IF hits = {} THEN NoElement ELSE CHOOSE k \in hits : \A h \in hits : k <= h

getElementById(pg, id) ==
    firstOf({k \in 1..Size(pg) : id # <<>> /\ Node(pg, k).id = id})

found(elements) == SelectSeq(elements, LAMBDA e : e # NoElement)

trimmedTexts(pg, nodes) == [k \in 1..Len(nodes) |-> trim(Node(pg, nodes[k]).text)]

elementsById(pg, ids) == [k \in 1..Len(ids) |-> getElementById(pg, ids[k])]

labelledByText(pg, labelledBy) ==
    trim(join(trimmedTexts(pg, found(elementsById(pg, splitWs(labelledBy, <<>>)))),
              <<" ">>))

NonBlank(attr) == attr # Null /\ attr # <<>> /\ Len(trim(attr)) > 0

\* element instanceof HTMLImageElement
isImage(e) == e.html /\ e.tagName = <<"I", "M", "G">>

\* element instanceof HTMLInputElement || element instanceof HTMLTextAreaElement
isTextField(e) ==
    e.html /\ e.tagName \in {<<"I", "N", "P", "U", "T">>,
                             <<"T", "E", "X", "T", "A", "R", "E", "A">>}

\* Mutant: a filled aria-label is returned as it is written
accessibleNameOf_untrimmed(pg, e) ==
    IF NonBlank(e.ariaLabel) THEN e.ariaLabel
    ELSE IF e.labelledBy # Null /\ e.labelledBy # <<>>
            /\ Len(labelledByText(pg, e.labelledBy)) > 0
    THEN labelledByText(pg, e.labelledBy)
    ELSE IF NonBlank(e.title) THEN trim(e.title)
    ELSE IF isImage(e) /\ NonBlank(e.alt) THEN trim(e.alt)
    ELSE IF isTextField(e) /\ NonBlank(e.placeholder) THEN trim(e.placeholder)
    ELSE IF isTextField(e) /\ NonBlank(e.name) THEN trim(e.name)
    ELSE IF Len(trim(e.text)) > 0 THEN trim(e.text)
    ELSE Null

\* The priority chain, on the node e of the page
accessibleNameOf(pg, e) ==
    IF NonBlank(e.ariaLabel) THEN trim(e.ariaLabel)
    ELSE IF e.labelledBy # Null /\ e.labelledBy # <<>>
            /\ Len(labelledByText(pg, e.labelledBy)) > 0
    THEN labelledByText(pg, e.labelledBy)
    ELSE IF NonBlank(e.title) THEN trim(e.title)
    ELSE IF isImage(e) /\ NonBlank(e.alt) THEN trim(e.alt)
    ELSE IF isTextField(e) /\ NonBlank(e.placeholder) THEN trim(e.placeholder)
    ELSE IF isTextField(e) /\ NonBlank(e.name) THEN trim(e.name)
    ELSE IF Len(trim(e.text)) > 0 THEN trim(e.text)
    ELSE Null

deriveAccessibleName(pg, el) == accessibleNameOf(pg, Node(pg, el))

(***************************************************************************)
(* Element metadata extraction                                             *)
(***************************************************************************)
\* The object the extractor returns.  htmlSnippet (the first 160 characters
\* of outerHTML) is left out: nothing reads it.
FocusTarget(selector, tagName, roleAttribute, name) ==
    [selector |-> selector,
     tag |-> toLowerCase(tagName),
     role |-> IF roleAttribute = <<>> THEN Null ELSE roleAttribute,
     name |-> name,
     hasAccessibleName |-> (name # Null /\ Len(trim(name)) > 0)]

\* Mutant: only a missing active element yields no FocusTarget
getActiveElementMetadata_bodyIncluded(pg, activeElement) ==
    IF activeElement = NoElement
    THEN NoObject
    ELSE FocusTarget(buildSelector(pg, activeElement),
                     Node(pg, activeElement).tagName,
                     Node(pg, activeElement).role,
                     deriveAccessibleName(pg, activeElement))

\* The FocusTarget of the focused element, or no object
getActiveElementMetadata(pg, activeElement) ==
    IF activeElement = NoElement \/ activeElement = Body
       \/ activeElement = DocumentElement
    THEN NoObject
    ELSE FocusTarget(buildSelector(pg, activeElement),
                     Node(pg, activeElement).tagName,
                     Node(pg, activeElement).role,
                     deriveAccessibleName(pg, activeElement))

(***************************************************************************)
(* document.querySelector, as the browser evaluates it on the selectors    *)
(* the synthesizer writes: #id, or compounds joined by the child           *)
(* combinator, a compound being a tag, classes and :nth-of-type            *)
(***************************************************************************)
RECURSIVE backslashesBefore(_, _)
backslashesBefore(s, k) ==
    IF k > 1 /\ s[k - 1] = "\\" THEN 1 + backslashesBefore(s, k - 1) ELSE 0

\* An identifier starts neither with a digit nor with a hyphen and a digit:
\* the browser rejects the selector with a SyntaxError otherwise
cssParses(selector) ==
    \A k \in 1..Len(selector) :
        (selector[k] \in {"#", "."} /\ backslashesBefore(selector, k) % 2 = 0)
        => /\ k < Len(selector)
           /\ selector[k + 1] \notin Digit
           /\ ~(/\ selector[k + 1] = "-"
                /\ (k + 1 = Len(selector) \/ selector[k + 2] \in Digit))

RECURSIVE splitPath(_, _)
splitPath(s, cur) ==
    IF s = <<>> THEN <<cur>>
    ELSE IF Len(s) >= 3 /\ SubSeq(s, 1, 3) = <<" ", ">", " ">>
         THEN <<cur>> \o splitPath(SubSeq(s, 4, Len(s)), <<>>)
         ELSE splitPath(Tail(s), Append(cur, Head(s)))

RECURSIVE pick(_, _, _)
\* The entries of seq at the positions in keep, in order, each after a dot
pick(seq, keep, k) ==
    IF k > Len(seq) THEN <<>>
    ELSE (IF k \in keep THEN <<".">> \o cssEscape(seq[k]) ELSE <<>>)
         \o pick(seq, keep, k + 1)

compoundIs(compound, base, index) ==
    compound = base \/ (index > 0 /\ compound = base \o nthOfType(index))

matchesNode(node, index, compound) ==
    \E keep \in SUBSET (1..Len(node.classList)) :
        compoundIs(compound,
                   toLowerCase(node.tagName) \o pick(node.classList, keep, 1),
                   index)

matchesCompound(pg, c, compound) ==
    matchesNode(Node(pg, c),
                Cardinality({d \in sameTagSiblings(pg, c) : d <= c}), compound)

RECURSIVE matchesPath(_, _, _)
matchesPath(pg, c, compounds) ==
    \/ compounds = <<>>
    \/ /\ c # NoElement
       /\ matchesCompound(pg, c, compounds[Len(compounds)])
       /\ matchesPath(pg, Node(pg, c).parent,
                      SubSeq(compounds, 1, Len(compounds) - 1))

matchesSelector(pg, c, selector) ==
    IF Head(selector) = "#"
    THEN Node(pg, c).id # <<>> /\ <<"#">> \o cssEscape(Node(pg, c).id) = selector
    ELSE matchesPath(pg, c, splitPath(selector, <<>>))

\* The first element in document order that the selector matches
querySelector(pg, selector) ==
    firstOf({c \in 1..Size(pg) : matchesSelector(pg, c, selector)})

(***************************************************************************)
(* Static ARIA / alt-text scan                                             *)
(***************************************************************************)
MaxImagesReported == 20

\* The filter of the scan, on the alt and role attributes of an image
missingAlt(alt, role) ==
    IF alt = Null THEN TRUE
    ELSE Len(trim(alt)) = 0 /\ (role = Null \/ role = <<>>)

isMissingAlt(pg, img) == missingAlt(Node(pg, img).alt, Node(pg, img).role)

\* querySelectorAll("[aria-label],[aria-labelledby],[aria-describedby],[role]")
ariaNodes(pg) ==
    {k \in 1..Size(pg) :
        \/ Node(pg, k).ariaLabel # Null
        \/ Node(pg, k).labelledBy # Null
        \/ Node(pg, k).describedBy # Null
        \/ Node(pg, k).role # Null}

\* Array.from(document.querySelectorAll("img"))
images(pg) ==
    SelectSeq([k \in 1..Size(pg) |-> k],
              LAMBDA k : Node(pg, k).html /\ Node(pg, k).tagName = <<"I", "M", "G">>)

\* .slice(0, 20)
firstImages(list) ==
    SubSeq(list, 1, IF Len(list) < MaxImagesReported THEN Len(list)
                    ELSE MaxImagesReported)

\* .map(img => ({src, snippet})); the snippet is left out
described(pg, list) == [k \in 1..Len(list) |-> [src |-> Node(pg, list[k]).src]]

getAriaReport(pg) ==
    [ariaAttributeCount |-> Cardinality(ariaNodes(pg)),
     imagesMissingAlt |->
        described(pg, firstImages(SelectSeq(images(pg),
                                            LAMBDA k : isMissingAlt(pg, k))))]

(***************************************************************************)
(* URL normalization                                                       *)
(***************************************************************************)
startsWith(s, prefix) ==
    Len(s) >= Len(prefix) /\ SubSeq(s, 1, Len(prefix)) = prefix

\* Mutant: the scheme is recognised in lower case only
normalizeUrl_caseSensitive(in) ==
    IF \/ startsWith(in, <<"h", "t", "t", "p", ":", "/", "/">>)
       \/ startsWith(in, <<"h", "t", "t", "p", "s", ":", "/", "/">>)
    THEN in
    ELSE <<"h", "t", "t", "p", "s", ":", "/", "/">> \o in

\* Mutant: only http:// is taken for a scheme
normalizeUrl_httpOnly(in) ==
    IF startsWith(toLowerCase(in), <<"h", "t", "t", "p", ":", "/", "/">>)
    THEN in
    ELSE <<"h", "t", "t", "p", "s", ":", "/", "/">> \o in

\* /^https?:\/\//i.test(input) ? input : "https://" + input
normalizeUrl(in) ==
    IF \/ startsWith(toLowerCase(in), <<"h", "t", "t", "p", ":", "/", "/">>)
       \/ startsWith(toLowerCase(in), <<"h", "t", "t", "p", "s", ":", "/", "/">>)
    THEN in
    ELSE <<"h", "t", "t", "p", "s", ":", "/", "/">> \o in

(***************************************************************************)
(* Bounds and inputs                                                       *)
(***************************************************************************)
\* The iteration maximum of the walker of route.ts (lib/accessibility-types.ts)
MAX_TAB_ITERATIONS == 100

\* The iteration maximum of the walker of src/actions.ts
MAX_TAB_ITERATIONS_actions == 30

\* Pages of 0..MaxSmallPage focusable elements come in every variant
MaxSmallPage == 3

\* A key press or an extraction of the walk or of the verification may
\* reject while at most this many keys were pressed before it
MaxFaultPresses == 2

\* The entry points: POST of route.ts called over HTTP, the server action of
\* lib/actions.ts (which calls POST), the server action of src/actions.ts
Impl == {"route", "libAction", "action"}

MaxIterations(which) ==
    IF which = "action" THEN MAX_TAB_ITERATIONS_actions ELSE MAX_TAB_ITERATIONS

\* What callers supply as url: nothing, blank strings, a host, full URLs
\* with http and https written in mixed case, a URL with one slash missing
UrlInputs ==
    {Null, <<>>, <<" ", "\t">>, <<" ", "x", ".", "y", " ">>,
     <<"H", "t", "t", "p", ":", "/", "/", "x">>,
     <<"h", "T", "T", "p", "S", ":", "/", "/", "x">>,
     <<"h", "t", "t", "p", ":", "/", "x">>}

\* A request: json says whether the body parses as JSON
Requests(which) ==
    {[json |-> TRUE, url |-> u] : u \in UrlInputs}
    \cup (IF which = "route" THEN {[json |-> FALSE, url |-> Null]} ELSE {})

Backs == {"mirror", "stuck", "leave", "skip"}

BigPageSizes ==
    {MAX_TAB_ITERATIONS_actions - 1, MAX_TAB_ITERATIONS_actions,
     MAX_TAB_ITERATIONS_actions + 1, MAX_TAB_ITERATIONS - 1,
     MAX_TAB_ITERATIONS, MAX_TAB_ITERATIONS + 1}

\* How many images the pages with images have: scenario D, every
\* combination of alt and role, and 19 to 22 images without an alt text
ImageCounts == {2, 12, 31, 32, 33, 37}

PageSet ==
    {[kind |-> k, n |-> n, wrap |-> w, back |-> b, imgs |-> 0] :
        k \in {"ids"}, n \in 0..MaxSmallPage, w \in 0..2, b \in Backs}
    \cup {[kind |-> k, n |-> n, wrap |-> w, back |-> "mirror", imgs |-> 0] :
        k \in {"path", "noname"}, n \in 1..MaxSmallPage, w \in 0..1}
    \cup {[kind |-> "samename", n |-> n, wrap |-> 0, back |-> b, imgs |-> 0] :
        n \in 1..MaxSmallPage, b \in Backs}
    \cup {[kind |-> k, n |-> 2, wrap |-> w, back |-> "mirror", imgs |-> 0] :
        k \in {"deep", "deepdup", "svg", "badid"}, w \in 0..1}
    \cup {[kind |-> "dupid", n |-> 3, wrap |-> w, back |-> "mirror", imgs |-> 0] :
        w \in 0..1}
    \cup {[kind |-> "inertid", n |-> 2, wrap |-> w, back |-> b, imgs |-> 0] :
        w \in 0..1, b \in {"mirror", "stuck"}}
    \cup {[kind |-> "ids", n |-> n, wrap |-> w, back |-> b, imgs |-> 0] :
        n \in BigPageSizes, w \in 0..1, b \in {"mirror", "skip"}}
    \cup {[kind |-> "names", n |-> 10, wrap |-> 0, back |-> "mirror",
           imgs |-> 0]}
    \cup {[kind |-> "classy", n |-> 3, wrap |-> w, back |-> "mirror",
           imgs |-> 0] : w \in 0..1}
    \cup {[kind |-> "ids", n |-> n, wrap |-> 0, back |-> "mirror", imgs |-> m] :
        n \in {0, 2}, m \in ImageCounts}

Pages == {pg \in PageSet : pg.wrap <= pg.n}

\* The request of each of two checks that run at the same time, and the
\* page they are served: two links and two images
PairRequest == [json |-> TRUE, url |-> <<" ", "x", ".", "y", " ">>]

PairPages ==
    {[kind |-> "ids", n |-> 2, wrap |-> 0, back |-> "mirror", imgs |-> 2]}

\* The element that has the focus once a page is loaded: none (the body), or
\* on a small page possibly its second focusable element (autofocus, or a
\* script of the page calling focus())
InitialFocus(doc) ==
    {Body} \cup (IF doc.n >= 2 /\ doc.n <= MaxSmallPage
                 THEN {Focusables(doc)[2]} ELSE {})

(***************************************************************************)
(* One check, from the call of its entry point to the value it returns     *)
(***************************************************************************)
VARIABLES
    impl,       \* the entry point the caller invoked
    input,      \* what the caller supplied
    pc,         \* the await the check is suspended at
    outerUrl,   \* normalizedUrl of the server action of lib/actions.ts
    body,       \* the body of the request POST received
    url,        \* normalizedUrl of POST or of the action of src/actions.ts
    browser, context, page,     \* "null", "open" or "closed"
    pg,         \* the page the navigation loaded
    focus,      \* document.activeElement
    tabStart,   \* where Tab starts from while no element has the focus
    i, visited, cycleDetected, limitReached,    \* locals of the walker
    j,          \* the loop index of the verifier
    shiftTabConsistent,         \* "true", "false", "null"
    tabOrder, aria,             \* the reports, once built
    pending,    \* the value the try or catch block returns, before finally
    thrownAt,   \* the await whose rejection the catch block caught, if any
    stopped,    \* how the loop of the walker ended: "exhausted", "cycle", "limit"
    refocused,  \* what the evaluate of the verifier returned, once it did
    observed,   \* what the extractions after each Shift+Tab returned
    response,   \* the HTTP response of POST
    result,     \* the value returned to the caller
    raised,     \* the entry point rejected with an exception
    calls,      \* how many times each browser or network call was invoked
    other       \* a second check, suspended at an await while this one runs

vars == <<impl, input, pc, outerUrl, body, url, browser, context, page, pg,
          tabStart, focus, i, visited, cycleDetected, limitReached, j,
          shiftTabConsistent, tabOrder, aria, pending, thrownAt, stopped,
          refocused, observed, response, result, raised, calls, other>>

handles == <<browser, context, page>>

walk == <<i, visited, cycleDetected, limitReached, j, shiftTabConsistent,
          tabOrder, stopped, refocused, observed>>

caught == <<pending, thrownAt>>

request == <<impl, input, outerUrl, body, url>>

outcome == <<response, result, raised>>

\* The pages a navigation may load
Served == IF other = NoObject THEN Pages ELSE PairPages

MissingUrl ==
    [ok |-> FALSE, summary |-> "Please provide a URL to check.", url |-> Null,
     tabOrder |-> NoObject, aria |-> NoObject, errors |-> <<"Missing URL">>]

InvalidPayload ==
    [ok |-> FALSE, summary |-> "Invalid request payload.", url |-> Null,
     tabOrder |-> NoObject, aria |-> NoObject,
     errors |-> <<"Expected JSON body with a url field.">>]

\* Mutant: the catch block attaches the report the walk had built
Failure_partialReport(normalizedUrl, message) ==
    [ok |-> FALSE, summary |-> "Unable to complete accessibility check",
     url |-> normalizedUrl, tabOrder |-> tabOrder, aria |-> NoObject,
     errors |-> <<message>>]

Failure(normalizedUrl, message) ==
    [ok |-> FALSE, summary |-> "Unable to complete accessibility check",
     url |-> normalizedUrl, tabOrder |-> NoObject, aria |-> NoObject,
     errors |-> <<message>>]

Success(normalizedUrl, tabOrderReport, ariaReport) ==
    [ok |-> TRUE, summary |-> "Accessibility quick-check completed",
     url |-> normalizedUrl, tabOrder |-> tabOrderReport, aria |-> ariaReport,
     errors |-> Null]

Called(name) == calls' = [calls EXCEPT ![name] = @ + 1]

\* The state of a check when its entry point is called
Start ==
    /\ impl \in Impl
    /\ input \in Requests(impl)
    /\ pc = IF impl = "route" THEN "post" ELSE "start"
    /\ body = IF impl = "route" THEN input ELSE NoObject
    /\ outerUrl = Null
    /\ url = Null
    /\ browser = "null" /\ context = "null" /\ page = "null"
    /\ pg = NoObject
    /\ focus = NoElement
    /\ tabStart = Body
    /\ i = 0 /\ visited = <<>> /\ cycleDetected = FALSE /\ limitReached = FALSE
    /\ j = 0
    /\ shiftTabConsistent = "null"
    /\ tabOrder = NoObject /\ aria = NoObject
    /\ pending = NoObject /\ response = NoObject /\ result = NoObject
    /\ thrownAt = "" /\ stopped = "none" /\ refocused = "none" /\ observed = <<>>
    /\ raised = FALSE
    /\ calls = [launch |-> 0, goto |-> 0, settle |-> 0, fetch |-> 0, tab |-> 0,
                shiftTab |-> 0, scan |-> 0, browserClose |-> 0]

\* One check runs
Init == Start /\ other = NoObject

\* Mutant: the input is not trimmed before it is tested
rawUrlOf_untrimmed(supplied) == IF supplied = Null THEN <<>> ELSE supplied

\* (x || "").toString().trim(), (payload?.url?.toString().trim() ?? "")
rawUrlOf(supplied) == IF supplied = Null THEN <<>> ELSE trim(supplied)

\* The catch block: the failure state is what the function will return, and
\* the finally block runs next
Throw(message) ==
    /\ pending' = Failure(url, message)
    /\ thrownAt' = pc
    /\ pc' = IF impl = "action" THEN "finBrowser" ELSE "finPage"

\* checkAccessibilityAction of lib/actions.ts and of src/actions.ts, up to
\* the first await
ActionStart ==
    /\ pc = "start"
    /\ IF rawUrlOf(input.url) = <<>>
       THEN /\ result' = MissingUrl
            /\ pc' = "done"
            /\ UNCHANGED <<outerUrl, url>>
       ELSE IF impl = "action"
       THEN /\ url' = normalizeUrl(rawUrlOf(input.url))
            /\ pc' = "launch"
            /\ UNCHANGED <<outerUrl, result>>
       ELSE /\ outerUrl' = normalizeUrl(rawUrlOf(input.url))
            /\ pc' = "fetch"
            /\ UNCHANGED <<url, result>>
    /\ UNCHANGED <<impl, input, body, handles, pg, tabStart, focus, walk, aria,
                   caught, response, raised, calls, other>>

\* lib/actions.ts: await fetch(apiUrl, {body: JSON.stringify({url})})
Fetch ==
    /\ pc = "fetch"
    /\ Called("fetch")
    /\ \/ /\ body' = [json |-> TRUE, url |-> outerUrl]
          /\ pc' = "post"
          /\ UNCHANGED <<result, thrownAt>>
       \/ /\ result' = Failure(outerUrl, "fetch failed")
          /\ thrownAt' = pc
          /\ pc' = "done"
          /\ UNCHANGED body
    /\ UNCHANGED <<impl, input, outerUrl, url, handles, pg, tabStart, focus,
                   walk, aria, pending, response, raised, other>>

\* POST of route.ts up to the launch of the browser
Post ==
    /\ pc = "post"
    /\ IF ~body.json
       THEN /\ response' = [status |-> 400, body |-> InvalidPayload]
            /\ pc' = "respond"
            /\ UNCHANGED url
       ELSE IF rawUrlOf(body.url) = <<>>
       THEN /\ response' = [status |-> 400, body |-> MissingUrl]
            /\ pc' = "respond"
            /\ UNCHANGED url
       ELSE /\ url' = normalizeUrl(rawUrlOf(body.url))
            /\ pc' = "launch"
            /\ UNCHANGED response
    /\ UNCHANGED <<impl, input, outerUrl, body, handles, pg, tabStart, focus,
                   walk, aria, caught, result, raised, calls, other>>

\* chromium.launch(...), with the import or the launch options before it
Launch ==
    /\ pc = "launch"
    /\ Called("launch")
    /\ \/ /\ browser' = "open"
          /\ pc' = IF impl = "action" THEN "newPage" ELSE "newContext"
          /\ UNCHANGED caught
       \/ /\ Throw("launch failed")
          /\ UNCHANGED browser
    /\ UNCHANGED <<request, context, page, pg, tabStart, focus, walk, aria,
                   outcome, other>>

\* route.ts: browser.newContext(...)
NewContext ==
    /\ pc = "newContext"
    /\ \/ /\ context' = "open"
          /\ pc' = "newPage"
          /\ UNCHANGED caught
       \/ /\ Throw("newContext failed")
          /\ UNCHANGED context
    /\ UNCHANGED <<request, browser, page, pg, tabStart, focus, walk, aria,
                   outcome, calls, other>>

\* context.newPage() (route.ts), browser.newPage() (src/actions.ts)
NewPage ==
    /\ pc = "newPage"
    /\ \/ /\ page' = "open"
          /\ pc' = "goto"
          /\ UNCHANGED caught
       \/ /\ Throw("newPage failed")
          /\ UNCHANGED page
    /\ UNCHANGED <<request, browser, context, pg, tabStart, focus, walk, aria,
                   outcome, calls, other>>

\* Mutant: a rejected navigation is recorded and the pipeline goes on
Goto_ignoresFailure ==
    /\ pc = "goto"
    /\ Called("goto")
    /\ \/ /\ pg' \in Served
          /\ focus' \in InitialFocus(pg')
          /\ tabStart' = focus'
          /\ pc' = "settle"
          /\ UNCHANGED caught
       \/ /\ pending' = Failure(url, "navigation failed")
          /\ thrownAt' = pc
          /\ pg' \in Served
          /\ focus' = Body
          /\ tabStart' = Body
          /\ pc' = "settle"
    /\ UNCHANGED <<request, handles, walk, aria, outcome, other>>

\* page.goto(normalizedUrl, {timeout: 20000})
Goto ==
    /\ pc = "goto"
    /\ Called("goto")
    /\ \/ /\ pg' \in Served
          /\ focus' \in InitialFocus(pg')
          /\ tabStart' = focus'
          /\ pc' = "settle"
          /\ UNCHANGED caught
       \/ /\ Throw("navigation failed")
          /\ UNCHANGED <<pg, tabStart, focus>>
    /\ UNCHANGED <<request, handles, walk, aria, outcome, other>>

\* page.waitForTimeout(250)
Settle ==
    /\ pc = "settle"
    /\ Called("settle")
    /\ \/ pc' = "blur" /\ UNCHANGED caught
       \/ Throw("waitForTimeout failed")
    /\ UNCHANGED <<request, handles, pg, tabStart, focus, walk, aria, outcome,
                   other>>

(***************************************************************************)
(* Tab-Order Walker (buildTabOrderReport)                                  *)
(***************************************************************************)
\* Mutant: the loop runs one iteration too many
loopContinues_offByOne(k, which) == k <= MaxIterations(which)

\* for (let i = 0; i < MAX_TAB_ITERATIONS; i++)
loopContinues(k, which) == k < MaxIterations(which)

\* Mutant: an entry is taken for a repeat when its selector was seen
seenBefore_selectorOnly(seen, target) ==
    \E k \in 1..Len(seen) : seen[k].selector = target.selector

\* visited.some(item => item.selector === target.selector
\*                      && item.name === target.name)
seenBefore(seen, target) ==
    \E k \in 1..Len(seen) :
        seen[k].selector = target.selector /\ seen[k].name = target.name

\* Mutant: the limit is reported from the last allowed iteration on
limitHit_early(seen, which) == Len(seen) >= MaxIterations(which) - 1

\* if (visited.length === MAX_TAB_ITERATIONS) limitReached = true
limitHit(seen, which) == Len(seen) = MaxIterations(which)

Report(seen, cycle, limit, consistent) ==
    [visited |-> seen, cycleDetected |-> cycle, limitReached |-> limit,
     shiftTabConsistent |-> consistent]

\* verifyShiftTab returns: buildTabOrderReport returns its report and the
\* entry point goes on to the scan
VerifierReturns(seen, cycle, limit, consistent) ==
    /\ shiftTabConsistent' = consistent
    /\ tabOrder' = Report(seen, cycle, limit, consistent)
    /\ pc' = "scan"

\* The faults of the walk and of the verification that the model injects
MayFault == calls.tab + calls.shiftTab <= MaxFaultPresses

\* The evaluate that blurs the active element and scrolls to the top.
\* blur() leaves document.activeElement on the body; whether the browser also
\* forgets the place its sequential focus navigation starts from is up to
\* the browser (the HTML standard lets it keep the starting point), so both
\* outcomes are possible
Blur ==
    /\ pc = "blur"
    /\ \/ /\ focus' = IF focus = NoElement THEN NoElement ELSE Body
          /\ tabStart' \in {Body, tabStart}
          /\ visited' = <<>>
          /\ cycleDetected' = FALSE
          /\ limitReached' = FALSE
          /\ i' = 0
          /\ pc' = "tabPress"
          /\ UNCHANGED caught
       \/ /\ Throw("evaluate failed")
          /\ UNCHANGED <<focus, tabStart, visited, cycleDetected,
                         limitReached, i>>
    /\ UNCHANGED <<request, handles, pg, j, shiftTabConsistent, tabOrder,
                   stopped, refocused, observed, aria, outcome, calls, other>>

\* page.keyboard.press("Tab") and page.waitForTimeout(50).  Only the first
\* press finds the focus on the body: the loop goes on only after an
\* extraction found a focused element
TabPress ==
    /\ pc = "tabPress"
    /\ Called("tab")
    /\ \/ /\ focus' = TabFrom(pg, IF focus = Body THEN tabStart ELSE focus)
          /\ pc' = "tabExtract"
          /\ UNCHANGED caught
       \/ /\ MayFault
          /\ Throw("keyboard.press failed")
          /\ UNCHANGED focus
    /\ UNCHANGED <<request, handles, pg, tabStart, walk, aria, outcome, other>>

\* Mutant: only an empty visited is too short to verify
tooShort_emptyOnly(seen) == Len(seen) < 1

\* if (visited.length <= 1) return null
tooShort(seen) == Len(seen) <= 1

\* The loop has ended with seen visited: limitReached is set and
\* verifyShiftTab runs up to its first await
LoopEnds(seen, cycle, how) ==
    /\ stopped' = how
    /\ limitReached' = limitHit(seen, impl)
    /\ IF tooShort(seen)
       THEN VerifierReturns(seen, cycle, limitHit(seen, impl), "null")
       ELSE /\ pc' = "refocus"
            /\ UNCHANGED <<shiftTabConsistent, tabOrder>>

\* Mutant: a repeated pair sets cycleDetected but is appended and the
\* walk goes on
LoopBody_keepsRepeat(target) ==
    IF target = NoObject
    THEN /\ UNCHANGED <<visited, cycleDetected, i>>
         /\ LoopEnds(visited, FALSE, "exhausted")
    ELSE /\ visited' = Append(visited, target)
         /\ i' = i + 1
         /\ cycleDetected' = (cycleDetected \/ seenBefore(visited, target))
         /\ IF loopContinues(i + 1, impl)
            THEN /\ pc' = "tabPress"
                 /\ UNCHANGED <<limitReached, shiftTabConsistent, tabOrder,
                                stopped>>
            ELSE LoopEnds(Append(visited, target),
                          cycleDetected \/ seenBefore(visited, target), "limit")

\* Mutant: the repeated pair is appended before the loop is left
LoopBody_appendsRepeat(target) ==
    IF target = NoObject
    THEN /\ UNCHANGED <<visited, cycleDetected, i>>
         /\ LoopEnds(visited, FALSE, "exhausted")
    ELSE IF seenBefore(visited, target)
    THEN /\ cycleDetected' = TRUE
         /\ visited' = Append(visited, target)
         /\ UNCHANGED i
         /\ LoopEnds(Append(visited, target), TRUE, "cycle")
    ELSE /\ visited' = Append(visited, target)
         /\ i' = i + 1
         /\ UNCHANGED cycleDetected
         /\ IF loopContinues(i + 1, impl)
            THEN /\ pc' = "tabPress"
                 /\ UNCHANGED <<limitReached, shiftTabConsistent, tabOrder,
                                stopped>>
            ELSE LoopEnds(Append(visited, target), FALSE, "limit")

\* The loop body after the extraction returned target
LoopBody(target) ==
    IF target = NoObject
    THEN /\ UNCHANGED <<visited, cycleDetected, i>>
         /\ LoopEnds(visited, FALSE, "exhausted")
    ELSE IF seenBefore(visited, target)
    THEN /\ cycleDetected' = TRUE
         /\ UNCHANGED <<visited, i>>
         /\ LoopEnds(visited, TRUE, "cycle")
    ELSE /\ visited' = Append(visited, target)
         /\ i' = i + 1
         /\ UNCHANGED cycleDetected
         /\ IF loopContinues(i + 1, impl)
            THEN /\ pc' = "tabPress"
                 /\ UNCHANGED <<limitReached, shiftTabConsistent, tabOrder,
                                stopped>>
            ELSE LoopEnds(Append(visited, target), FALSE, "limit")

\* getActiveElementMetadata(page) and the rest of the loop body
TabExtract ==
    /\ pc = "tabExtract"
    /\ \/ /\ LoopBody(getActiveElementMetadata(pg, focus))
              /\ UNCHANGED caught
       \/ /\ MayFault
          /\ Throw("evaluate failed")
          /\ UNCHANGED <<i, visited, cycleDetected, limitReached,
                         shiftTabConsistent, tabOrder, stopped>>
    /\ UNCHANGED <<request, handles, pg, tabStart, focus, j, refocused,
                   observed, aria, outcome, calls, other>>

\* What the loop of buildTabOrderReport computes, as a function of the page,
\* of the place the first Tab press starts from and of the iteration maximum
walkOutcome(seen, cycle, max) ==
    [visited |-> seen, cycleDetected |-> cycle,
     limitReached |-> (Len(seen) = max)]

RECURSIVE walkFrom(_, _, _, _, _)
walkNext(doc, el, target, seen, k, max) ==
    IF target = NoObject THEN walkOutcome(seen, FALSE, max)
    ELSE IF seenBefore(seen, target) THEN walkOutcome(seen, TRUE, max)
    ELSE walkFrom(doc, el, Append(seen, target), k + 1, max)

walkStep(doc, el, seen, k, max) ==
    walkNext(doc, el, getActiveElementMetadata(doc, el), seen, k, max)

walkFrom(doc, el, seen, k, max) ==
    IF k < max THEN walkStep(doc, TabFrom(doc, el), seen, k, max)
    ELSE walkOutcome(seen, FALSE, max)

walkOf(doc, start, max) == walkFrom(doc, start, <<>>, 0, max)

(***************************************************************************)
(* Reverse-Order Verifier (verifyShiftTab)                                 *)
(***************************************************************************)
\* Mutant: the verifier compares the names only
differs_nameOnly(target, expected) == target.name # expected.name

\* target.selector !== expected.selector || target.name !== expected.name
differs(target, expected) ==
    target.selector # expected.selector \/ target.name # expected.name

\* el instanceof HTMLElement
isHTMLElement(doc, el) == el # NoElement /\ Node(doc, el).html

\* el.focus(): the focus moves to el when el can take it
focusOn(doc, el, current) == IF PositionOf(doc, el) > 0 THEN el ELSE current

\* What verifyShiftTab computes, as a function of the page, of visited and
\* of the element that has the focus when it is called (the one the last Tab
\* press of the walk moved the focus to)
RECURSIVE reverseFrom(_, _, _, _)
reverseNext(doc, el, target, seen, k) ==
    IF target = NoObject \/ differs(target, seen[k]) THEN "false"
    ELSE reverseFrom(doc, el, seen, k - 1)

reverseStep(doc, el, seen, k) ==
    reverseNext(doc, el, getActiveElementMetadata(doc, el), seen, k)

reverseFrom(doc, el, seen, k) ==
    IF k > 0 THEN reverseStep(doc, ShiftTabFrom(doc, el), seen, k) ELSE "true"

verifyFrom(doc, el, current, seen) ==
    IF isHTMLElement(doc, el)
    THEN reverseFrom(doc, focusOn(doc, el, current), seen, Len(seen) - 1)
    ELSE "null"

verifyOf(doc, seen, current) ==
    IF tooShort(seen) THEN "null"
    ELSE verifyFrom(doc, querySelector(doc, seen[Len(seen)].selector), current,
                    seen)

RECURSIVE tabTimes(_, _, _)
\* The element that has the focus after k Tab presses that began at el
tabTimes(doc, el, k) ==
    IF k = 0 THEN el ELSE tabTimes(doc, TabFrom(doc, el), k - 1)

\* The Tab presses of a walk that ended with seen visited
pressesOf(seen, max) == IF Len(seen) = max THEN max ELSE Len(seen) + 1

\* The report buildTabOrderReport returns for the page doc when the first
\* Tab press starts from the element start
reportFor(doc, start, seen, cycle, limit, max) ==
    Report(seen, cycle, limit,
           verifyOf(doc, seen, tabTimes(doc, start, pressesOf(seen, max))))

reportOf(doc, start, max) ==
    reportFor(doc, start, walkOf(doc, start, max).visited,
              walkOf(doc, start, max).cycleDetected,
              walkOf(doc, start, max).limitReached, max)

\* The evaluate found el: if (el instanceof HTMLElement) { el.focus(); return
\* true } return false, and the verifier up to its next await
Refocused(el) ==
    IF isHTMLElement(pg, el)
    THEN /\ refocused' = "true"
         /\ focus' = focusOn(pg, el, focus)
         /\ j' = Len(visited) - 1
         /\ IF Len(visited) - 1 > 0
            THEN /\ pc' = "shiftPress"
                 /\ UNCHANGED <<shiftTabConsistent, tabOrder>>
            ELSE VerifierReturns(visited, cycleDetected, limitReached, "true")
    ELSE /\ refocused' = "false"
         /\ VerifierReturns(visited, cycleDetected, limitReached, "null")
         /\ UNCHANGED <<focus, j>>

\* The evaluate that focuses document.querySelector(lastTarget.selector)
Refocus ==
    /\ pc = "refocus"
    /\ \/ /\ cssParses(visited[Len(visited)].selector)
          /\ Refocused(querySelector(pg, visited[Len(visited)].selector))
          /\ UNCHANGED caught
       \/ /\ ~cssParses(visited[Len(visited)].selector)
          /\ Throw("SyntaxError: not a valid selector")
          /\ UNCHANGED <<focus, j, shiftTabConsistent, tabOrder, refocused>>
       \/ /\ Throw("evaluate failed")
          /\ UNCHANGED <<focus, j, shiftTabConsistent, tabOrder, refocused>>
    /\ UNCHANGED <<request, handles, pg, tabStart, i, visited, cycleDetected,
                   limitReached, stopped, observed, aria, outcome, calls,
                   other>>

\* page.keyboard.press("Shift+Tab") and page.waitForTimeout(50)
ShiftPress ==
    /\ pc = "shiftPress"
    /\ Called("shiftTab")
    /\ \/ /\ focus' = ShiftTabFrom(pg, focus)
          /\ pc' = "shiftExtract"
          /\ UNCHANGED caught
       \/ /\ MayFault
          /\ Throw("keyboard.press failed")
          /\ UNCHANGED focus
    /\ UNCHANGED <<request, handles, pg, tabStart, walk, aria, outcome, other>>

\* Mutant: a mismatch is remembered and the loop runs to its end
ReverseStep_continues(target) ==
    /\ observed' = Append(observed, target)
    /\ j' = j - 1
    /\ IF j - 1 > 0
       THEN /\ pc' = "shiftPress"
            /\ shiftTabConsistent' =
                  IF target = NoObject \/ differs(target, visited[j])
                  THEN "false" ELSE shiftTabConsistent
            /\ UNCHANGED tabOrder
       ELSE VerifierReturns(visited, cycleDetected, limitReached,
                            IF \/ shiftTabConsistent = "false"
                               \/ target = NoObject
                               \/ differs(target, visited[j])
                            THEN "false" ELSE "true")

\* The loop body of verifyShiftTab after the extraction returned target
ReverseStep(target) ==
    /\ observed' = Append(observed, target)
    /\ IF target = NoObject \/ differs(target, visited[j])
       THEN /\ VerifierReturns(visited, cycleDetected, limitReached, "false")
            /\ UNCHANGED j
       ELSE /\ j' = j - 1
            /\ IF j - 1 > 0
               THEN /\ pc' = "shiftPress"
                    /\ UNCHANGED <<shiftTabConsistent, tabOrder>>
               ELSE VerifierReturns(visited, cycleDetected, limitReached,
                                    "true")

\* getActiveElementMetadata(page) and the rest of the loop body
ShiftExtract ==
    /\ pc = "shiftExtract"
    /\ \/ /\ ReverseStep(getActiveElementMetadata(pg, focus))
          /\ UNCHANGED caught
       \/ /\ MayFault
          /\ Throw("evaluate failed")
          /\ UNCHANGED <<j, shiftTabConsistent, tabOrder, observed>>
    /\ UNCHANGED <<request, handles, pg, tabStart, focus, i, visited,
                   cycleDetected, limitReached, stopped, refocused, aria,
                   outcome, calls, other>>

(***************************************************************************)
(* Scan, teardown and return                                               *)
(***************************************************************************)
\* Mutant: the scan does not wait for the verifier to return
Scan_unordered ==
    /\ pc \in {"scan", "refocus"}
    /\ Called("scan")
    /\ \/ /\ aria' = getAriaReport(pg)
          /\ pending' = Success(url, tabOrder, aria')
          /\ UNCHANGED thrownAt
          /\ pc' = IF impl = "action" THEN "finBrowser" ELSE "closeContext"
       \/ /\ Throw("evaluate failed")
          /\ UNCHANGED aria
    /\ UNCHANGED <<request, handles, pg, tabStart, focus, walk, outcome,
                   other>>

\* Mutant: the scan blurs the active element before it reads the page
Scan_blursFirst ==
    /\ pc = "scan"
    /\ Called("scan")
    /\ \/ /\ aria' = getAriaReport(pg)
          /\ focus' = Body
          /\ pending' = Success(url, tabOrder, aria')
          /\ UNCHANGED thrownAt
          /\ pc' = IF impl = "action" THEN "finBrowser" ELSE "closeContext"
       \/ /\ Throw("evaluate failed")
          /\ UNCHANGED <<aria, focus>>
    /\ UNCHANGED <<request, handles, pg, tabStart, walk, outcome, other>>

\* getAriaReport(page), and the success state built from the two reports
Scan ==
    /\ pc = "scan"
    /\ Called("scan")
    /\ \/ /\ aria' = getAriaReport(pg)
          /\ pending' = Success(url, tabOrder, aria')
          /\ UNCHANGED thrownAt
          /\ pc' = IF impl = "action" THEN "finBrowser" ELSE "closeContext"
       \/ /\ Throw("evaluate failed")
          /\ UNCHANGED aria
    /\ UNCHANGED <<request, handles, pg, tabStart, focus, walk, outcome,
                   other>>

\* route.ts: await context.close() inside the try block, before the return
CloseContext ==
    /\ pc = "closeContext"
    /\ \/ /\ context' = "closed"
          /\ pc' = "finPage"
          /\ UNCHANGED caught
       \/ /\ Throw("context.close failed")
          /\ UNCHANGED context
    /\ UNCHANGED <<request, browser, page, pg, tabStart, focus, walk, aria,
                   outcome, calls, other>>

\* handle?.close().catch(() => {}): the states the handle may be left in
afterSwallowedClose(handle) ==
    IF handle = "null" THEN {"null"} ELSE {"closed", handle}

\* route.ts finally: await page?.close().catch(() => {})
FinPage ==
    /\ pc = "finPage"
    /\ page' \in afterSwallowedClose(page)
    /\ pc' = "finContext"
    /\ UNCHANGED <<request, browser, context, pg, tabStart, focus, walk, aria,
                   caught, outcome, calls, other>>

\* route.ts finally: await context?.close().catch(() => {})
FinContext ==
    /\ pc = "finContext"
    /\ context' \in afterSwallowedClose(context)
    /\ pc' = "finBrowser"
    /\ UNCHANGED <<request, browser, page, pg, tabStart, focus, walk, aria,
                   caught, outcome, calls, other>>

\* Mutant: the failure of the catch block is sent with the default status
statusOf_alwaysOk(state) == 200

\* The HTTP status NextResponse.json is given with each state
statusOf(state) == IF state.ok THEN 200 ELSE 500

\* Mutant: the browser is closed at the end of the try block only, so an
\* exception skips it
RouteFinBrowser_onlyOnSuccess ==
    /\ pc = "finBrowser"
    /\ impl # "action"
    /\ browser' \in (IF pending.ok THEN afterSwallowedClose(browser) ELSE {browser})
    /\ IF browser = "null" \/ ~pending.ok THEN UNCHANGED calls
       ELSE Called("browserClose")
    /\ response' = [status |-> statusOf(pending), body |-> pending]
    /\ pc' = "respond"
    /\ UNCHANGED <<request, context, page, pg, tabStart, focus, walk, aria,
                   caught, result, raised, other>>

\* route.ts finally: await browser?.close().catch(() => {}), then the
\* response of the try or catch block is returned
RouteFinBrowser ==
    /\ pc = "finBrowser"
    /\ impl # "action"
    /\ browser' \in afterSwallowedClose(browser)
    /\ IF browser = "null" THEN UNCHANGED calls ELSE Called("browserClose")
    /\ response' = [status |-> statusOf(pending), body |-> pending]
    /\ pc' = "respond"
    /\ UNCHANGED <<request, context, page, pg, tabStart, focus, walk, aria,
                   caught, result, raised, other>>

\* src/actions.ts finally: await browser?.close(), then the function returns
\* what the try or catch block returned, unless close() rejected
ActionFinBrowser ==
    /\ pc = "finBrowser"
    /\ impl = "action"
    /\ pc' = "done"
    /\ IF browser = "null"
       THEN /\ result' = pending
            /\ UNCHANGED <<browser, raised, calls>>
       ELSE /\ Called("browserClose")
            /\ \/ /\ browser' = "closed"
                  /\ result' = pending
                  /\ UNCHANGED raised
               \/ /\ raised' = TRUE
                  /\ UNCHANGED <<browser, result>>
    /\ UNCHANGED <<request, context, page, pg, tabStart, focus, walk, aria,
                   caught, response, other>>

\* response.ok
responseOk(resp) == resp.status >= 200 /\ resp.status <= 299

serviceReturned(status) ==
    IF status = 400 THEN "Accessibility service returned 400"
    ELSE "Accessibility service returned 500"

\* The response reaches the caller of POST: an HTTP client, or the server
\* action of lib/actions.ts, which returns the payload of a 2xx response
Respond ==
    /\ pc = "respond"
    /\ result' = IF impl = "route" \/ responseOk(response) THEN response.body
                 ELSE Failure(outerUrl, serviceReturned(response.status))
    /\ pc' = "done"
    /\ UNCHANGED <<request, handles, pg, tabStart, focus, walk, aria, caught,
                   response, raised, calls, other>>

(***************************************************************************)
(* Two checks at the same time.  Node runs one of them at a time and goes  *)
(* from one to the other at an await: the variables are those of the check *)
(* that runs, other holds those of the check that waits.  Every variable   *)
(* of a check is a local of the invocation of its entry point (route.ts    *)
(* lines 54-56, src/actions.ts line 52) or belongs to the browser that     *)
(* this invocation launched.                                               *)
(***************************************************************************)
\* The check that runs, as it is kept while it waits
Suspended ==
    [impl |-> impl, input |-> input, pc |-> pc, outerUrl |-> outerUrl,
     body |-> body, url |-> url, browser |-> browser, context |-> context,
     page |-> page, pg |-> pg, focus |-> focus, tabStart |-> tabStart, i |-> i,
     visited |-> visited, cycleDetected |-> cycleDetected,
     limitReached |-> limitReached, j |-> j,
     shiftTabConsistent |-> shiftTabConsistent, tabOrder |-> tabOrder,
     aria |-> aria, pending |-> pending, thrownAt |-> thrownAt,
     stopped |-> stopped, refocused |-> refocused, observed |-> observed,
     response |-> response, result |-> result, raised |-> raised,
     calls |-> calls]

\* A check whose entry point has just been called
Fresh(which, req) ==
    [impl |-> which, input |-> req,
     pc |-> IF which = "route" THEN "post" ELSE "start",
     outerUrl |-> Null, body |-> IF which = "route" THEN req ELSE NoObject,
     url |-> Null, browser |-> "null", context |-> "null", page |-> "null",
     pg |-> NoObject, focus |-> NoElement, tabStart |-> Body, i |-> 0,
     visited |-> <<>>, cycleDetected |-> FALSE, limitReached |-> FALSE,
     j |-> 0, shiftTabConsistent |-> "null", tabOrder |-> NoObject,
     aria |-> NoObject, pending |-> NoObject, thrownAt |-> "",
     stopped |-> "none", refocused |-> "none", observed |-> <<>>,
     response |-> NoObject, result |-> NoObject, raised |-> FALSE,
     calls |-> [launch |-> 0, goto |-> 0, settle |-> 0, fetch |-> 0, tab |-> 0,
                shiftTab |-> 0, scan |-> 0, browserClose |-> 0]]

\* The locals and the browser of the check c become the variables
Resume(c) ==
    /\ impl' = c.impl /\ input' = c.input /\ pc' = c.pc
    /\ outerUrl' = c.outerUrl /\ body' = c.body /\ url' = c.url
    /\ context' = c.context /\ page' = c.page
    /\ pg' = c.pg /\ focus' = c.focus /\ tabStart' = c.tabStart
    /\ i' = c.i /\ visited' = c.visited /\ cycleDetected' = c.cycleDetected
    /\ limitReached' = c.limitReached /\ j' = c.j
    /\ shiftTabConsistent' = c.shiftTabConsistent /\ tabOrder' = c.tabOrder
    /\ aria' = c.aria /\ pending' = c.pending /\ thrownAt' = c.thrownAt
    /\ stopped' = c.stopped /\ refocused' = c.refocused
    /\ observed' = c.observed /\ response' = c.response
    /\ result' = c.result /\ raised' = c.raised /\ calls' = c.calls

\* Mutant: the browser is kept in a variable of the module, which the two
\* checks share
Switch_sharedBrowser ==
    /\ other # NoObject
    /\ other' = Suspended
    /\ Resume(other)
    /\ browser' = browser

\* The check that runs waits at its await and the other one goes on
Switch ==
    /\ other # NoObject
    /\ other' = Suspended
    /\ Resume(other)
    /\ browser' = other.browser

Next ==
    \/ ActionStart \/ Fetch \/ Post
    \/ Launch \/ NewContext \/ NewPage \/ Goto \/ Settle
    \/ Blur \/ TabPress \/ TabExtract
    \/ Refocus \/ ShiftPress \/ ShiftExtract
    \/ Scan \/ CloseContext
    \/ FinPage \/ FinContext \/ RouteFinBrowser \/ ActionFinBrowser
    \/ Respond

Spec == Init /\ [][Next]_vars

\* Two checks are started
InitPair ==
    /\ Start
    /\ input = PairRequest
    /\ other \in {Fresh(which, PairRequest) : which \in Impl}

NextPair == Next \/ Switch

SpecPair == InitPair /\ [][NextPair]_vars

(***************************************************************************)
(* Properties                                                              *)
(***************************************************************************)
Done == pc = "done"

\* Two FocusTargets describe the same element: selector and name both equal
SamePair(a, b) == a.selector = b.selector /\ a.name = b.name

\* The walker has left its loop
WalkFinished == stopped # "none"

\* C1: the walker presses Tab at most MAX_TAB_ITERATIONS times (it is out of
\* its loop once it has), and visited never holds more than
\* MAX_TAB_ITERATIONS entries
C1_WalkBounded ==
    /\ calls.tab <= MaxIterations(impl)
    /\ Len(visited) <= MaxIterations(impl)
    /\ (calls.tab = MaxIterations(impl) => pc # "tabPress")

\* A page with more focusable elements than the maximum, walked to the limit
C1_Witness ==
    /\ pg # NoObject
    /\ pg.n > MaxIterations(impl)
    /\ WalkFinished
    /\ calls.tab = MaxIterations(impl)
    /\ Len(visited) = MaxIterations(impl)

\* C2: once the walk has finished, limitReached is true exactly when all
\* MAX_TAB_ITERATIONS iterations ran and the walk was stopped neither by an
\* absent extraction nor by a repeated pair
C2_LimitReachedIff ==
    WalkFinished =>
        (limitReached <=> (/\ calls.tab = MaxIterations(impl)
                           /\ stopped \notin {"exhausted", "cycle"}))

\* A walk stopped on the very last allowed iteration: limitReached is false
C2_Witness ==
    /\ stopped \in {"exhausted", "cycle"}
    /\ calls.tab = MaxIterations(impl)
    /\ ~limitReached

\* The extraction of the walker returns a pair that visited already holds
RepeatExtracted ==
    /\ pc = "tabExtract"
    /\ thrownAt' = thrownAt
    /\ getActiveElementMetadata(pg, focus) # NoObject
    /\ \E k \in 1..Len(visited) :
          SamePair(visited[k], getActiveElementMetadata(pg, focus))

NoRepeatIn(seen) ==
    \A a, b \in 1..Len(seen) : a # b => ~SamePair(seen[a], seen[b])

\* C3: a Tab press that yields a pair equal to one of visited stops the walk
\* with cycleDetected = true and appends nothing, and no two entries of
\* visited ever have the same (selector, name) pair
C3_CycleStopsWalk ==
    [][/\ RepeatExtracted =>
            (cycleDetected' /\ visited' = visited /\ stopped' = "cycle")
       /\ visited' # visited => NoRepeatIn(visited')]_vars

\* A walk of several elements that ended on a repeated pair
C3_Witness == stopped = "cycle" /\ cycleDetected /\ Len(visited) >= 2

\* The verifier has returned: the report of the walk exists
VerifierReturned == tabOrder # NoObject

\* The extractions after the Shift+Tab presses are visited reversed, without
\* its last entry: the k-th one is present and equals visited[Len - k]
ReverseObserved ==
    /\ Len(observed) = Len(visited) - 1
    /\ \A k \in 1..Len(observed) :
          /\ observed[k] # NoObject
          /\ SamePair(observed[k], visited[Len(visited) - k])

\* C4: the verifier returns true exactly when it re-focused the last visited
\* element and the Shift+Tab presses then yielded visited in reverse order
C4_ReverseConsistency ==
    VerifierReturned =>
        (tabOrder.shiftTabConsistent = "true"
            <=> (refocused = "true" /\ ReverseObserved))

\* A reverse walk over three or more elements that matched
C4_Witness ==
    /\ VerifierReturned
    /\ tabOrder.shiftTabConsistent = "true"
    /\ Len(visited) >= 3
    /\ Len(observed) = Len(visited) - 1

SuccessShape(state) ==
    /\ state.ok
    /\ state.tabOrder # NoObject
    /\ state.aria # NoObject
    /\ state.errors = Null

FailureShape(state) ==
    /\ ~state.ok
    /\ state.errors # Null
    /\ Len(state.errors) >= 1
    /\ state.tabOrder = NoObject
    /\ state.aria = NoObject

\* C5: every state a check returns (and every body POST responds with) has
\* the success shape or the failure shape, never a mixture
C5_ResultShape ==
    /\ result # NoObject => (SuccessShape(result) \/ FailureShape(result))
    /\ response # NoObject =>
          (SuccessShape(response.body) \/ FailureShape(response.body))

\* A failure returned after the walk had built its report
C5_Witness ==
    /\ Done
    /\ result # NoObject
    /\ ~result.ok
    /\ tabOrder # NoObject

VerifierSteps == {"refocus", "shiftPress", "shiftExtract"}

\* C6: the verifier never raises, its outcome is true, false or null, and a
\* problem inside it never makes the check fail
C6_VerifierNeverRaises ==
    /\ thrownAt \notin VerifierSteps
    /\ VerifierReturned =>
          tabOrder.shiftTabConsistent \in {"true", "false", "null"}
    /\ (Done /\ result # NoObject /\ ~result.ok) => thrownAt \notin VerifierSteps

\* Navigation, walk, verification and scan all succeeded
PipelineSucceeded == aria # NoObject

\* C7: when navigation, walk, verification and scan succeeded, the caller
\* receives the ok=true report even if a close() call fails
C7_CloseFailureHidden ==
    (Done /\ PipelineSucceeded) =>
        (~raised /\ result # NoObject /\ SuccessShape(result))

LaunchSucceeded == browser # "null"

\* C8: when the launch succeeded, close() has been invoked on the browser
\* before the check returns
C8_BrowserClosed ==
    (LaunchSucceeded /\ (Done \/ pc = "respond")) => calls.browserClose >= 1

\* A check that failed on a rejected key press or extraction of the walk
C8_Witness ==
    /\ Done
    /\ LaunchSucceeded
    /\ thrownAt \in {"tabPress", "tabExtract"}
    /\ calls.browserClose >= 1

\* C9: a failure after input validation is returned as a state with
\* ok=false and a message, and no entry point rejects with an exception
C9_FailureConverted ==
    /\ ~raised
    /\ (Done /\ thrownAt # "") =>
          (result # NoObject /\ ~result.ok /\ result.errors # Null
           /\ Len(result.errors) >= 1)

\* The url is missing, empty or only whitespace
BlankUrl(supplied) ==
    supplied = Null \/ \A k \in 1..Len(supplied) : supplied[k] \in WhiteSpace

\* C10: a missing, empty or whitespace-only url launches no browser,
\* navigates nowhere and sends no request to the check service, and the check
\* returns ok=false with errors exactly ["Missing URL"]
C10_MissingUrl ==
    (input.json /\ BlankUrl(input.url)) =>
        /\ calls.launch = 0 /\ calls.goto = 0 /\ calls.fetch = 0
        /\ Done => (/\ result # NoObject
                    /\ ~result.ok
                    /\ result.errors = <<"Missing URL">>)

\* A whitespace-only url, rejected
C10_Witness ==
    /\ Done
    /\ input.url # Null
    /\ Len(input.url) > 0
    /\ BlankUrl(input.url)
    /\ result.errors = <<"Missing URL">>

\* The navigation of the check was rejected
NavigationFailed == thrownAt = "goto"

\* C11: when page.goto fails, the caller of the check receives ok=false with
\* exactly one message, the message of the navigation failure, and neither
\* tabOrder nor aria
C11_NavigationFailure ==
    (Done /\ NavigationFailed) =>
        /\ ~raised
        /\ result # NoObject
        /\ ~result.ok
        /\ result.errors = <<"navigation failed">>
        /\ result.tabOrder = NoObject
        /\ result.aria = NoObject

\* The extraction of the walker returns no FocusTarget
ExtractionAbsent ==
    /\ pc = "tabExtract"
    /\ thrownAt' = thrownAt
    /\ getActiveElementMetadata(pg, focus) = NoObject

\* The selector the verifier hands to document.querySelector does not parse:
\* the exception comes from the selector the program built, not from the
\* browser failing
SelectorRaised ==
    /\ thrownAt = "refocus"
    /\ pending.errors = <<"SyntaxError: not a valid selector">>

\* The browser or the network rejected a call of the pipeline (a close is
\* not a step of the pipeline)
PipelineRejected ==
    thrownAt \notin {"", "closeContext"} /\ ~SelectorRaised

\* C12: a Tab press after which the extraction is absent stops the walk in
\* state exhausted, with nothing appended, cycleDetected = false and no
\* failure recorded, and the check then returns ok=true with that report
\* (unless the browser rejects a later step of the pipeline)
C12_ExhaustedIsNormal ==
    /\ [][ExtractionAbsent =>
            /\ stopped' = "exhausted"
            /\ visited' = visited
            /\ ~cycleDetected'
            /\ pending' = NoObject
            /\ pc' \in {"refocus", "scan"}]_vars
    /\ []((Done /\ stopped = "exhausted" /\ ~PipelineRejected) =>
            /\ result # NoObject
            /\ result.ok
            /\ result.tabOrder.visited = visited
            /\ ~result.tabOrder.cycleDetected)

\* C13: with 0 or 1 visited entries the verifier returns null, evaluates no
\* re-focus and presses no Shift+Tab
C13_TooShortNotApplicable ==
    /\ (WalkFinished /\ Len(visited) <= 1) =>
          /\ pc \notin {"refocus", "shiftPress", "shiftExtract"}
          /\ refocused = "none"
          /\ calls.shiftTab = 0
          /\ observed = <<>>
    /\ (VerifierReturned /\ Len(visited) <= 1) =>
          tabOrder.shiftTabConsistent = "null"

\* A walk that visited exactly one element, verified as not applicable
C13_Witness ==
    /\ VerifierReturned
    /\ Len(visited) = 1
    /\ tabOrder.shiftTabConsistent = "null"
    /\ calls.shiftTab = 0

\* The element document.querySelector finds for the last visited selector
LastMatch == querySelector(pg, visited[Len(visited)].selector)

\* Two or more entries were visited and the last one cannot be re-focused:
\* its selector matches no element, or an element the focus does not move to
CannotRefocus ==
    /\ Len(visited) >= 2
    /\ cssParses(visited[Len(visited)].selector)
    /\ (LastMatch = NoElement \/ PositionOf(pg, LastMatch) = 0)

\* C14: when the last visited entry cannot be re-focused, the verifier
\* returns null and presses no Shift+Tab
C14_NoRefocusNotApplicable ==
    /\ (WalkFinished /\ CannotRefocus) => calls.shiftTab = 0
    /\ (VerifierReturned /\ CannotRefocus) =>
          tabOrder.shiftTabConsistent = "null"

\* The extraction after the k-th Shift+Tab press is absent or is not the
\* expected predecessor
Mismatch(k) ==
    \/ observed[k] = NoObject
    \/ ~SamePair(observed[k], visited[Len(visited) - k])

\* C15: the first Shift+Tab step whose extraction is absent or differs from
\* the expected entry is the last one: the verifier has returned false and no
\* Shift+Tab press or extraction follows it
C15_FirstMismatchReturnsFalse ==
    \A k \in 1..Len(observed) :
        Mismatch(k) =>
            /\ k = Len(observed)
            /\ calls.shiftTab = k
            /\ VerifierReturned
            /\ tabOrder.shiftTabConsistent = "false"
            /\ pc \notin {"shiftPress", "shiftExtract"}

\* A mismatch at the first of several reverse steps, after which the check
\* ran to its end
C15_Witness ==
    /\ Done
    /\ Len(visited) >= 3
    /\ Len(observed) = 1
    /\ Mismatch(1)
    /\ calls.shiftTab = 1
    /\ tabOrder.shiftTabConsistent = "false"

\* A close of the page, of the context or of the browser has taken effect or
\* has been invoked
SomethingClosed ==
    \/ page = "closed" \/ context = "closed" \/ browser = "closed"
    \/ calls.browserClose > 0

\* C16: one check launches, navigates, settles and scans at most once, and in
\* this order: the settle follows the navigation, the Tab walk the settle,
\* the re-focus and the Shift+Tab presses the end of the walk, the scan the
\* return of the verifier, and nothing is closed before the scan has
\* returned (or a step has failed)
C16_StepsInOrder ==
    /\ calls.launch <= 1 /\ calls.goto <= 1 /\ calls.settle <= 1
    /\ calls.scan <= 1
    /\ calls.goto > 0 => calls.launch = 1
    /\ calls.settle > 0 => (calls.goto = 1 /\ pg # NoObject)
    /\ calls.tab > 0 => (calls.settle = 1 /\ pc # "blur")
    /\ (calls.shiftTab > 0 \/ refocused # "none" \/ pc = "refocus")
          => WalkFinished
    /\ calls.scan > 0 => VerifierReturned
    /\ SomethingClosed => (aria # NoObject \/ thrownAt # "")
    /\ aria # NoObject => calls.scan = 1

\* A check in which every step ran: Tab walk, Shift+Tab verification, scan
\* and the close of the browser
C16_Witness ==
    /\ Done
    /\ result # NoObject
    /\ result.ok
    /\ calls.tab >= 2
    /\ calls.shiftTab >= 1
    /\ calls.scan = 1
    /\ calls.browserClose = 1

\* The FocusTargets of the focusable elements of a page, in Tab order
Targets(doc) ==
    [k \in 1..Len(Focusables(doc)) |->
        getActiveElementMetadata(doc, Focusables(doc)[k])]

\* The loop of the walker ends with this step
WalkEnds == stopped = "none" /\ stopped' # "none"

\* Scenario A: two or more focusable elements, fewer than the maximum, with
\* pairwise distinct (selector, name) pairs; Tab leaves the page after the
\* last one and Shift+Tab moves in the reverse order
ScenarioA(doc) ==
    /\ doc # NoObject
    /\ doc.wrap = 0
    /\ doc.back = "mirror"
    /\ Len(Focusables(doc)) >= 2
    /\ Len(Focusables(doc)) < MaxIterations(impl)
    /\ NoRepeatIn(Targets(doc))

\* C17: on a page of scenario A the verifier does not fail and the report is
\* the n elements in traversal order, cycleDetected = false, limitReached =
\* false and shiftTabConsistent = true
C17_ScenarioA ==
    ScenarioA(pg) =>
        /\ ~SelectorRaised
        /\ VerifierReturned =>
              tabOrder = Report(Targets(pg), FALSE, FALSE, "true")

\* Scenario B: Tab from the last focusable element returns to the first one,
\* and there are fewer focusable elements than the maximum
ScenarioB(doc) ==
    /\ doc.wrap = 1
    /\ Len(Focusables(doc)) < MaxIterations(impl)

\* C18, as stated: on a page of scenario B with k distinct focusable DOM
\* elements the walk ends with cycleDetected = true and k entries visited
C18_CycleCountsElements ==
    [][(WalkEnds /\ ScenarioB(pg)) =>
          (cycleDetected' /\ Len(visited') = Len(Focusables(pg)))]_vars

\* C18, amended: on a page of scenario B whose k focusable elements have
\* pairwise distinct (selector, name) pairs the walk ends with
\* cycleDetected = true and k entries visited
C18_CycleCountsPairs ==
    [][(WalkEnds /\ ScenarioB(pg) /\ NoRepeatIn(Targets(pg))) =>
          (cycleDetected' /\ Len(visited') = Len(Focusables(pg)))]_vars

\* A cycle on a page whose two elements share their selector and differ in
\* their names: both are visited before the repeat
C18_Witness ==
    /\ stopped = "cycle"
    /\ pg.kind = "deep"
    /\ pg.wrap = 1
    /\ cycleDetected
    /\ Len(visited) = 2
    /\ visited[1].selector = visited[2].selector

\* The walker of the other implementation
OtherWalker(which) == IF which = "action" THEN "route" ELSE "action"

\* What the walk that ends with this step has computed
WalkResult ==
    [visited |-> visited', cycleDetected |-> cycleDetected',
     limitReached |-> limitReached']

\* C19: the walkers use one iteration maximum: a walk yields the visited,
\* cycleDetected and limitReached that the walker of the other
\* implementation yields for the same page behaviour
C19_OneIterationMaximum ==
    [][WalkEnds =>
          WalkResult = walkOf(pg, tabStart,
                              MaxIterations(OtherWalker(impl)))]_vars

\* C20: the result of a walk does not depend on the element that had the
\* focus when it began: it is the result of the walk on the same page with
\* no element focused
C20_WalkIgnoresPriorFocus ==
    [][WalkEnds =>
          WalkResult = walkOf(pg, Body, MaxIterations(impl))]_vars

\* The awaits between the launch of the browser and the finally block, and
\* those between the opening of the page and the end of the scan
UsesBrowser ==
    {"newContext", "newPage", "goto", "settle", "blur", "tabPress",
     "tabExtract", "refocus", "shiftPress", "shiftExtract", "scan",
     "closeContext"}

UsesPage == UsesBrowser \ {"newContext", "newPage", "closeContext"}

\* The browser, the context and the page of the check c are open while c
\* uses them
OwnHandlesOpen(c) ==
    /\ c.pc \in UsesBrowser => c.browser = "open"
    /\ c.pc \in UsesPage => c.page = "open"
    /\ (c.pc \in UsesPage \cup {"closeContext"} /\ c.impl # "action")
          => c.context = "open"

\* The report the check c returned is the one its own request and the page
\* it was served determine
OwnReport(c) ==
    (c.pc = "done" /\ c.result # NoObject /\ c.result.ok) =>
        /\ c.result.url = normalizeUrl(rawUrlOf(c.input.url))
        /\ c.result.tabOrder = reportOf(c.pg, c.tabStart, MaxIterations(c.impl))
        /\ c.result.aria = getAriaReport(c.pg)

\* C21: of two checks that run at the same time, their awaits interleaved in
\* any order, each keeps its own browser, context and page open for as long
\* as it uses them, whatever the other one closes, and each returns the
\* report it returns when it runs alone
C21_ChecksIndependent ==
    \A c \in {Suspended, other} : OwnHandlesOpen(c) /\ OwnReport(c)

\* One check is in its Shift+Tab verification, its browser open, after the
\* other one has returned its complete report and closed its browser
C21_Witness ==
    /\ pc = "shiftExtract"
    /\ browser = "open"
    /\ other # NoObject
    /\ other.pc = "done"
    /\ other.browser = "closed"
    /\ other.result # NoObject
    /\ other.result.ok
    /\ Len(other.result.tabOrder.visited) = 2

\* The entry e of visited describes neither the body nor the root element
NotBodyNorRoot(e) ==
    /\ e # NoObject
    /\ e.tag \notin {<<"b", "o", "d", "y">>, <<"h", "t", "m", "l">>}

\* C22: the extractor returns no FocusTarget when no element has the focus
\* and when the body or the root element has it, and no entry of visited
\* describes the body or the root element
C22_BodyNeverVisited ==
    /\ pg # NoObject =>
          \A el \in {NoElement, Body, DocumentElement} :
              getActiveElementMetadata(pg, el) = NoObject
    /\ \A k \in 1..Len(visited) : NotBodyNorRoot(visited[k])

\* A walk of two or more elements after which the focus went to the body:
\* the extraction on the body ended the walk and appended nothing
C22_Witness ==
    /\ stopped = "exhausted"
    /\ focus = Body
    /\ pc = "refocus"
    /\ Len(visited) >= 2
    /\ calls.tab = Len(visited) + 1

\* The string s begins with prefix, letters compared without regard to case
BeginsWith(s, prefix) ==
    /\ Len(s) >= Len(prefix)
    /\ \A k \in 1..Len(prefix) : toLowerCase(<<s[k]>>) = <<prefix[k]>>

HasScheme(s) ==
    \/ BeginsWith(s, <<"h", "t", "t", "p", ":", "/", "/">>)
    \/ BeginsWith(s, <<"h", "t", "t", "p", "s", ":", "/", "/">>)

\* The url supplied, without the white space around it
TrimmedInput ==
    SubSeq(input.url,
           CHOOSE a \in 1..Len(input.url) :
               /\ input.url[a] \notin WhiteSpace
               /\ \A k \in 1..(a - 1) : input.url[k] \in WhiteSpace,
           CHOOSE b \in 1..Len(input.url) :
               /\ input.url[b] \notin WhiteSpace
               /\ \A k \in (b + 1)..Len(input.url) : input.url[k] \in WhiteSpace)

\* The normalized form of the url supplied
NormalizedInput ==
    IF HasScheme(TrimmedInput) THEN TrimmedInput
    ELSE <<"h", "t", "t", "p", "s", ":", "/", "/">> \o TrimmedInput

\* The state carries a url
CarriesUrl(state) == state # NoObject /\ state.url # Null

\* C23: a trimmed url that begins with http:// or https://, in any case, is
\* used unchanged, every other one gets https:// in front, and the url of
\* every state returned (and of every body POST responds with) that carries
\* one is this normalized url
C23_UrlNormalized ==
    /\ url # Null => url = NormalizedInput
    /\ outerUrl # Null => outerUrl = NormalizedInput
    /\ CarriesUrl(result) => result.url = NormalizedInput
    /\ (response # NoObject /\ response.body.url # Null) =>
          response.body.url = NormalizedInput

\* A successful check of a url given in mixed case through the server
\* action that calls POST: the url is normalized twice and is unchanged
C23_Witness ==
    /\ Done
    /\ impl = "libAction"
    /\ input.url = <<"h", "T", "T", "p", "S", ":", "/", "/", "x">>
    /\ result # NoObject
    /\ result.ok
    /\ result.url = input.url

\* The images of the page
ImageNodes(doc) ==
    {k \in 1..Size(doc) : Node(doc, k).tagName = <<"I", "M", "G">>}

\* The image has no alt attribute, or an alt that is empty once trimmed and
\* no role attribute
LacksAlt(e) ==
    \/ e.alt = Null
    \/ /\ \A k \in 1..Len(e.alt) : e.alt[k] \in WhiteSpace
       /\ e.role = Null

\* The scan has returned its report for a page with images
Scanned == aria # NoObject /\ pg.imgs > 0

\* C24: the scan takes an image for one that misses its alt text exactly
\* when the image has no alt attribute, or has an alt that is empty once
\* trimmed and no role attribute; when the page has no more images than the
\* report holds, the report lists as many images as there are such ones
C24_MissingAltPredicate ==
    Scanned =>
        /\ \A k \in ImageNodes(pg) :
              isMissingAlt(pg, k) <=> LacksAlt(Node(pg, k))
        /\ Cardinality(ImageNodes(pg)) <= MaxImagesReported =>
              Len(aria.imagesMissingAlt) =
                  Cardinality({k \in ImageNodes(pg) : LacksAlt(Node(pg, k))})

\* The images that qualify as missing their alt text
Qualifying(doc) == {k \in ImageNodes(doc) : LacksAlt(Node(doc, k))}

\* The images the filter of the scan lets through
Filtered(doc) == {k \in ImageNodes(doc) : isMissingAlt(doc, k)}

\* The place of the node k among the nodes of the set, in document order
RankIn(set, k) == Cardinality({m \in set : m <= k})

Smaller(a, b) == IF a < b THEN a ELSE b

\* The list holds the first images of the set, in document order, as many
\* as the report may hold
FirstOf(doc, set, list) ==
    /\ Len(list) = Smaller(MaxImagesReported, Cardinality(set))
    /\ \A k \in set :
          RankIn(set, k) <= MaxImagesReported =>
              list[RankIn(set, k)].src = Node(doc, k).src

\* C25: imagesMissingAlt never has more than 20 entries, and it holds the
\* first min(20, q) of the q qualifying images of the page, in document
\* order
C25_FirstTwentyQualifying ==
    /\ aria # NoObject => Len(aria.imagesMissingAlt) <= MaxImagesReported
    /\ Scanned => FirstOf(pg, Qualifying(pg), aria.imagesMissingAlt)

\* The cap is applied after the filter: the report holds the first 20 of the
\* images the filter lets through
CappedAfterFilter ==
    /\ aria # NoObject => Len(aria.imagesMissingAlt) <= MaxImagesReported
    /\ Scanned => FirstOf(pg, Filtered(pg), aria.imagesMissingAlt)

\* The scan returns its report with this step
ScanReturns == pc = "scan" /\ aria' # NoObject

Appends == pc = "tabExtract" /\ Len(visited') = Len(visited) + 1

\* The entry appended
Appended == visited'[Len(visited')]

\* How many of the first k characters of s are escaped
SpecialUpTo(s, k) == Cardinality({m \in 1..k : s[m] \in EscapedChars})

\* t is s with a backslash before each character that is escaped
IsEscapeOf(t, s) ==
    /\ Len(t) = Len(s) + SpecialUpTo(s, Len(s))
    /\ \A k \in 1..Len(s) :
          /\ t[k + SpecialUpTo(s, k)] = s[k]
          /\ s[k] \in EscapedChars => t[k + SpecialUpTo(s, k) - 1] = "\\"

\* C27: the selector of an element that has a non-empty id is # followed by
\* the escaped id, whatever the tag, the classes, the siblings and the
\* ancestors of the element
C27_IdSelector ==
    [][(Appends /\ Node(pg, focus).id # <<>>) =>
          /\ Head(Appended.selector) = "#"
          /\ IsEscapeOf(Tail(Appended.selector), Node(pg, focus).id)]_vars

\* The button of the page "classy" was visited: it has two classes, a div
\* with a class as parent and a dot in its id
C27_Witness ==
    /\ pg # NoObject
    /\ pg.kind = "classy"
    /\ Len(visited) >= 1
    /\ visited[1].tag = <<"b", "u", "t", "t", "o", "n">>
    /\ visited[1].selector = <<"#", "g", "o", "\\", ".", "n", "o", "w">>

RECURSIVE DepthOf(_, _)
\* The number of elements on the path from el up to the root element
DepthOf(doc, el) ==
    IF el = NoElement THEN 0 ELSE 1 + DepthOf(doc, Node(doc, el).parent)

RECURSIVE AncestorAt(_, _, _)
\* The element d levels above el (el itself when d = 0)
AncestorAt(doc, el, d) ==
    IF d = 0 THEN el ELSE AncestorAt(doc, Node(doc, el).parent, d - 1)

\* segments are the segments of the elements from el upwards, as many as
\* the selector may have, the outermost first and the one of el last
PathOf(doc, el, segments) ==
    /\ Len(segments) >= 1
    /\ Len(segments) <= MaxSelectorDepth
    /\ Len(segments) = Smaller(MaxSelectorDepth, DepthOf(doc, el))
    /\ \A d \in 0..(Len(segments) - 1) :
          segments[Len(segments) - d] = selectorSegment(doc, AncestorAt(doc, el, d))

\* C28: the selector of an element without an id has min(4, number of
\* elements from the element up to the root) segments, between 1 and 4, the
\* outermost first and the segment of the element itself last
C28_PathSelector ==
    [][(Appends /\ Node(pg, focus).id = <<>>) =>
          PathOf(pg, focus, splitPath(Appended.selector, <<>>))]_vars

\* A link seven elements deep was visited: its selector has four segments
C28_Witness ==
    /\ pg # NoObject
    /\ pg.kind = "deep"
    /\ Len(visited) >= 1
    /\ DepthOf(pg, Focusables(pg)[1]) = 7
    /\ visited[1].selector =
          <<"d", "i", "v", " ", ">", " ", "d", "i", "v", " ", ">", " ",
            "d", "i", "v", " ", ">", " ", "a">>

\* The attribute is present and not empty once trimmed
Filled(attr) == attr # Null /\ \E k \in 1..Len(attr) : attr[k] \notin WhiteSpace

\* The types of an <input> that make it a single-line text field (no type
\* attribute is the type text)
TextTypes ==
    {Null, <<"t", "e", "x", "t">>, <<"s", "e", "a", "r", "c", "h">>,
     <<"e", "m", "a", "i", "l">>, <<"u", "r", "l">>, <<"t", "e", "l">>,
     <<"p", "a", "s", "s", "w", "o", "r", "d">>}

\* A single-line or multi-line text field
TextInput(e) ==
    /\ e.html
    /\ \/ e.tagName = <<"T", "E", "X", "T", "A", "R", "E", "A">>
       \/ e.tagName = <<"I", "N", "P", "U", "T">> /\ e.type \in TextTypes

\* The sources of the name of the element e, in the order of their priority
Sources(doc, e) ==
    <<e.ariaLabel,
      IF e.labelledBy = Null THEN Null ELSE labelledByText(doc, e.labelledBy),
      e.title,
      IF isImage(e) THEN e.alt ELSE Null,
      IF TextInput(e) THEN e.placeholder ELSE Null,
      IF TextInput(e) THEN e.name ELSE Null,
      e.text>>

\* The first of the sources that is filled, trimmed; no name when none is
FirstFilled(sources) ==
    IF \E k \in 1..Len(sources) : Filled(sources[k])
    THEN trim(sources[CHOOSE k \in 1..Len(sources) :
                          /\ Filled(sources[k])
                          /\ \A m \in 1..(k - 1) : ~Filled(sources[m])])
    ELSE Null

\* C29: the name of an element is the first source that is not empty once
\* trimmed, in the order aria-label, text of aria-labelledby, title, alt (of
\* an image), placeholder then name (of a text field), text content; a
\* filled aria-label is the name whatever else the element has
C29_NamePriority ==
    [][Appends =>
          /\ Appended.name = FirstFilled(Sources(pg, Node(pg, focus)))
          /\ Filled(Node(pg, focus).ariaLabel) =>
                Appended.name = trim(Node(pg, focus).ariaLabel)]_vars

\* The chain with every <input>, whatever its type, taken for a text field
SourcesAnyInput(doc, e) ==
    <<e.ariaLabel,
      IF e.labelledBy = Null THEN Null ELSE labelledByText(doc, e.labelledBy),
      e.title,
      IF isImage(e) THEN e.alt ELSE Null,
      IF isTextField(e) THEN e.placeholder ELSE Null,
      IF isTextField(e) THEN e.name ELSE Null,
      e.text>>

NamePriorityAnyInput ==
    [][Appends =>
          Appended.name = FirstFilled(SourcesAnyInput(pg, Node(pg, focus)))]_vars

\* C30: the selector recorded for a visited element is a selector that
\* document.querySelector resolves, in the page as it is, to that element
C30_SelectorRelocates ==
    [][Appends =>
          /\ cssParses(Appended.selector)
          /\ querySelector(pg, Appended.selector) = focus]_vars

\* The selector recorded for a visited element, when it is one that parses,
\* matches that element (and possibly others before it in the document)
SelectorMatchesOwn ==
    [][(Appends /\ cssParses(Appended.selector)) =>
          matchesSelector(pg, focus, Appended.selector)]_vars

\* A step of the teardown, or the step that hands the result to the caller
TeardownStep ==
    FinPage \/ FinContext \/ RouteFinBrowser \/ ActionFinBrowser \/ Respond

\* C31: once page.goto has failed, every step of the check is a step of the
\* teardown or the return of the result; no Tab or Shift+Tab is pressed, the
\* settle wait, the walk, the verification and the scan do not run (their
\* variables, the page and the focus stay as they were), and a result that
\* is returned is a failure
C31_NavigationFailureEndsCheck ==
    [][NavigationFailed =>
          /\ TeardownStep
          /\ UNCHANGED <<pg, focus, tabStart, walk, aria>>
          /\ calls'.tab = 0 /\ calls'.shiftTab = 0
          /\ calls'.scan = 0 /\ calls'.settle = 0
          /\ pending' = pending /\ ~pending.ok
          /\ result' # NoObject => ~result'.ok]_vars

\* A check whose navigation failed has torn down and returned its failure
C31_Witness ==
    /\ Done
    /\ NavigationFailed
    /\ calls.goto = 1
    /\ browser = "closed"
    /\ result # NoObject
    /\ ~result.ok

\* The sources of the name of an element that is not a text field
OtherSources(doc, e) ==
    <<e.ariaLabel,
      IF e.labelledBy = Null THEN Null ELSE labelledByText(doc, e.labelledBy),
      e.title,
      IF isImage(e) THEN e.alt ELSE Null,
      e.text>>

\* C32: the name of a visited element that is not a single-line or
\* multi-line text field (a checkbox, a radio button, a button, a link, an
\* image) never comes from its placeholder or name attribute: it is the
\* first filled source among aria-label, aria-labelledby, title, alt and
\* text content, or there is no name
C32_FieldAttributesOnTextFieldsOnly ==
    [][(Appends /\ ~TextInput(Node(pg, focus))) =>
          Appended.name = FirstFilled(OtherSources(pg, Node(pg, focus)))]_vars

\* The same for the elements that are neither <input> nor <textarea>
FieldAttributesOffOtherTags ==
    [][(Appends /\ ~isTextField(Node(pg, focus))) =>
          Appended.name = FirstFilled(OtherSources(pg, Node(pg, focus)))]_vars

\* The FocusTargets the extractor has returned so far: those of the walk
\* and those the verifier read after each Shift+Tab
Extracted ==
    {visited[k] : k \in 1..Len(visited)}
        \cup {observed[k] : k \in {m \in 1..Len(observed) :
                                        observed[m] # NoObject}}

\* The name is absent, or a string that is not empty and neither begins nor
\* ends with white space
WellFormedName(name) ==
    \/ name = Null
    \/ /\ Len(name) > 0
       /\ name[1] \notin WhiteSpace
       /\ name[Len(name)] \notin WhiteSpace

\* C33: the name of every FocusTarget the extractor returns is null or a
\* non-empty string without white space at either end, and
\* hasAccessibleName is true exactly when the name is not null
C33_NameWellFormed ==
    \A t \in Extracted :
        /\ WellFormedName(t.name)
        /\ t.hasAccessibleName <=> t.name # Null

\* The walk of the page of kind "names" is over: a name was taken from an
\* aria-label written with spaces around it, another from the texts of
\* aria-labelledby, and the last element has no name at all
C33_Witness ==
    /\ pg # NoObject
    /\ pg.kind = "names"
    /\ Len(visited) = 10
    /\ Node(pg, 4).ariaLabel = <<" ", "G", "o", " ">>
    /\ visited[1].name = <<"G", "o">>
    /\ visited[1].hasAccessibleName
    /\ visited[2].name = <<"H", "i">>
    /\ visited[10].name = Null
    /\ ~visited[10].hasAccessibleName
    /\ Len(observed) >= 1

\* The flags of a report agree with its visited list
FlagsExclusive(seen, cycle, limit, max) ==
    /\ ~(cycle /\ limit)
    /\ cycle => (1 <= Len(seen) /\ Len(seen) < max)
    /\ limit => (Len(seen) = max /\ ~cycle)

\* C34: cycleDetected and limitReached are never both true; a detected
\* cycle comes with at least one and fewer than the maximum of visited
\* elements, a reached limit with exactly the maximum and no cycle: in the
\* walker's variables, in the report it builds and in the result returned
C34_CycleExcludesLimit ==
    /\ FlagsExclusive(visited, cycleDetected, limitReached,
                      MaxIterations(impl))
    /\ tabOrder # NoObject =>
          FlagsExclusive(tabOrder.visited, tabOrder.cycleDetected,
                         tabOrder.limitReached, MaxIterations(impl))
    /\ (result # NoObject /\ result.tabOrder # NoObject) =>
          FlagsExclusive(result.tabOrder.visited,
                         result.tabOrder.cycleDetected,
                         result.tabOrder.limitReached, MaxIterations(impl))

\* A page with one focusable element less than the maximum, on which Tab
\* wraps around: the cycle is detected in the last iteration, and the
\* report with it was returned
C34_Witness ==
    /\ Done
    /\ result # NoObject
    /\ result.tabOrder # NoObject
    /\ result.tabOrder.cycleDetected
    /\ ~result.tabOrder.limitReached
    /\ Len(result.tabOrder.visited) = MaxIterations(impl) - 1
    /\ calls.tab = MaxIterations(impl)

\* The urls normalizeUrl has returned in this check
NormalizedUrls == {u \in {url, outerUrl} : u # Null}

\* C35: normalizing a url that normalizeUrl returned gives the same url
\* again, and the url POST works with after the server action of
\* lib/actions.ts has normalized it too is the one a single normalization
\* of the trimmed input gives
C35_NormalizeIdempotent ==
    /\ \A u \in NormalizedUrls : normalizeUrl(u) = u
    /\ (impl = "libAction" /\ url # Null) =>
          /\ url = outerUrl
          /\ url = normalizeUrl(rawUrlOf(input.url))
          /\ url = normalizeUrl(normalizeUrl(rawUrlOf(input.url)))

\* A url without scheme went through the server action and through POST:
\* https:// was put in front of it once
C35_Witness ==
    /\ Done
    /\ impl = "libAction"
    /\ input.url = <<" ", "x", ".", "y", " ">>
    /\ outerUrl = <<"h", "t", "t", "p", "s", ":", "/", "/", "x", ".", "y">>
    /\ url = outerUrl
    /\ calls.fetch = 1
    /\ result # NoObject
    /\ result.ok
    /\ result.url = outerUrl

\* POST ran the whole pipeline: navigation, walk, verification and scan
PipelineCompleted ==
    /\ thrownAt = ""
    /\ calls.goto = 1
    /\ pg # NoObject
    /\ stopped # "none"
    /\ tabOrder # NoObject
    /\ calls.scan = 1
    /\ aria # NoObject

\* The state is a failure with one message and without reports
OneMessageFailure(state) ==
    /\ state # NoObject
    /\ ~state.ok
    /\ state.errors # Null
    /\ Len(state.errors) = 1
    /\ state.tabOrder = NoObject
    /\ state.aria = NoObject

\* C36: the status of the response of POST is a success status exactly
\* when its body has ok=true; it is 400 for a body that is not JSON or has
\* no url and 500 for a failure of the pipeline; the server action of
\* lib/actions.ts returns ok=true only with the body of a 200 response of
\* a POST that completed navigation, walk, verification and scan; and a
\* response with another status reaches the caller as ok=false with one
\* message and neither tabOrder nor aria
C36_StatusMatchesOk ==
    /\ response # NoObject =>
          /\ responseOk(response) <=> response.body.ok
          /\ response.status =
                IF response.body.ok THEN 200
                ELSE IF response.body \in {InvalidPayload, MissingUrl}
                THEN 400 ELSE 500
          /\ response.status = 400 <=> url = Null
          /\ response.status = 500 <=> thrownAt # ""
          /\ response.status = 200 => PipelineCompleted
    /\ (impl = "libAction" /\ result # NoObject /\ result.ok) =>
          /\ response # NoObject
          /\ response.status = 200
          /\ result = response.body
          /\ PipelineCompleted
          /\ result.tabOrder = tabOrder
          /\ result.aria = aria
    /\ (Done /\ response # NoObject /\ ~responseOk(response)) =>
          /\ OneMessageFailure(result)
          /\ impl = "libAction" =>
                result.errors = <<serviceReturned(response.status)>>

\* The walk, the verification and the scan of POST were done when
\* context.close() failed: POST answered 500, and the server action
\* returned a failure with the one message it writes itself
C36_Witness ==
    /\ Done
    /\ impl = "libAction"
    /\ thrownAt = "closeContext"
    /\ tabOrder # NoObject
    /\ aria # NoObject
    /\ response # NoObject
    /\ response.status = 500
    /\ ~response.body.ok
    /\ result # response.body
    /\ OneMessageFailure(result)

====
